---- MODULE Spec2Model ----
(***************************************************************************)
(* State-machine model of the market-signal-and-execution engine:          *)
(*   - MT5DataSyncService  (src/mt5_service/data_sync.py)                   *)
(*   - ScalpingStrategy    (src/strategies/scalping_strategy.py)            *)
(*   - StrategyManager     (src/strategies/strategy_manager.py)             *)
(*   - TradeManager        (src/trade/trade_manager.py)                     *)
(*   - trailing_stop_updater (src/main.py)                                  *)
(***************************************************************************)
EXTENDS Integers, Sequences, FiniteSets, TLC

(***************************************************************************)
(* Bounds of the model.                                                    *)
(***************************************************************************)
\* bar open_times are 0..MaxTime
MaxTime == 2
\* OHLCV/spread payloads of a bar are abstracted to one value 1..MaxVal
MaxVal == 2
\* number of bar listeners that can be registered
MaxListeners == 2
\* number of signals an evaluator emits in a run
MaxEmitted == 3
\* prices and stops are 1..MaxPrice (a stop of 0 means no stop)
MaxPrice == 3
\* at most MaxHandlers signal handlers are registered
MaxHandlers == 2
\* rewrites of one row by the finalization pass are counted up to MaxWrites
MaxWrites == 2
\* the host's local time is 0..MaxTzOffset bar periods ahead of UTC
MaxTzOffset == 1
\* max_risk_per_trade_percent is 1..MaxRiskPercent
MaxRiskPercent == 2
\* symbol_info.trade_tick_value is 1..MaxTickValue
MaxTickValue == 2
\* symbol_info.volume_step and volume_min are 1..MaxLotStep lots
MaxLotStep == 2
\* start() creates at most MaxThreads sync threads in a run
MaxThreads == 2
\* trade_manager.py:534-538  global_risk.max_total_positions
max_total_positions == 1
\* the venue hands out the tickets 1..MaxTickets
MaxTickets == max_total_positions + 1
\* trade_manager.py:458  100 * symbol_info.point * atr_multiplier, in price units
trailing_distance == 1

Times == 0..MaxTime

\* the configured (instrument, timeframe) matrix, in iteration order
PairSeq == <<"EURUSD:M1", "GBPUSD:M1">>
Pairs == {PairSeq[i] : i \in 1..Len(PairSeq)}

\* datetime.now() at _initialize_last_sync_times: the bar forming at start-up
\* has open_time 0 and is not later than the initial cursor
StartTime == 0

NoBar == [time |-> -1, val |-> 0]
NoPoll == [pair |-> "none", isNew |-> FALSE, finalized |-> FALSE,
           stored |-> FALSE, notified |-> 0, advanced |-> FALSE]

VARIABLES
    \* ---- configuration and venue scenario, fixed at start-up ----
    numPairs,           \* number of configured (instrument, timeframe) pairs
    payloads,           \* number of distinct bar payloads the venue produces
    \* ---- MT5DataSyncService ----
    running,            \* self._running
    syncPc,             \* position of the sync thread inside _sync_loop
    pairIdx,            \* index in PairSeq of the pair being polled
    latest,             \* latest_bar_data / latest_bar_time of the current poll
    last_sync_times,    \* self._last_sync_times[symbol][tf]  (the SyncCursor)
    store,              \* PriceBar table: pair -> open_time -> rows with that key
    bar_listeners,      \* len(self._bar_listeners)
    listenerIdx,        \* position inside "for listener in self._bar_listeners"
    lastNotified,       \* per listener and pair: open_time of the last bar delivered
    poll,               \* what the current/last poll of a pair has done so far
    finalizeWrites,     \* pair -> open_time -> rewrites of that row by the finalization pass
    finalizeFailed,     \* the finalization pass of the current poll raised
    \* ---- ScalpingStrategy (one evaluator) ----
    stratCfg,           \* the evaluator's configuration
    last_signal_type,   \* self.last_signal_type
    evalResult,         \* value returned by the last evaluate call
    evalRaised,         \* the last evaluate call went through its except clause
    emitted,            \* signals returned so far, in order
    \* ---- venue and TradeManager ----
    instruments,        \* symbols with a configured strategy
    quotes,             \* prices the venue quotes during the run
    venue,              \* the venue's open positions (symbol, side, stop), by ticket
    open_positions,     \* self._open_positions (the position book), by ticket
    nextTicket,         \* ticket the venue gives to the next position
    trailing_stop_enabled, \* global_risk_management.trailing_stop_enabled
    lastSignal,         \* the signal handed to _process_signal last
    lastCount,          \* book count seen when that signal arrived
    lastOrders,         \* order requests sent to the venue for that signal
    lastMods,           \* stop modifications sent by the last trailing pass
    lastRun,            \* the handler run last: did it call _sync_positions, and
                        \* what process_signal returned
    \* ---- main.py: the trailing-stop thread ----
    stop_event,         \* stop_event.is_set()
    trailPc,            \* position of trailing_stop_updater in its loop
    \* ---- risk parameters ----
    risk_params,        \* app_config carries trading_strategies.global_risk_management
    initialized,        \* TradeManager._initialized
    riskFailure,        \* the last handler raised while reading a risk parameter
    \* ---- position sizing of one entry order ----
    sizing,             \* what _execute_buy / _execute_sell reads: account, signal, symbol rules
    sized,              \* what it computes: volume before rounding, volume of the request
    \* ---- the last evaluate call, as its caller saw it ----
    evalCall,           \* stage and window of the call, last_signal_type before it
    \* ---- start() / stop() of MT5DataSyncService and the threads they create ----
    threadPc,           \* thread -> its position inside _sync_loop
    sync_thread,        \* self._sync_thread: the thread created last (0: None)
    stopCall,           \* the stop() call: not made, inside join, returned
    \* ---- the two threads that use the book ----
    pc,                 \* position of each thread in its handler
    snap,               \* "positions", the list positions_get() returned to the thread
    toFill,             \* tickets of snap the thread has not yet inserted
    bookBefore,         \* the book at the moment the thread's refresh cleared it
    heldSameDirection,  \* the book held a position of the symbol and direction of the
                        \* signal passed last to TradeManager.process_signal by a direct call
    \* ---- StrategyManager ----
    signal_handlers,    \* len(self._signal_handlers)
    mgrCall,            \* the _on_new_bar / evaluate_all_latest call in progress or last returned
    mgrIdx,             \* position of the call's loop over the evaluators
    invoked,            \* evaluator -> evaluate calls the call has made on it
    visit,              \* evaluator -> what the call's loop did when it came to it
    gotSignal,          \* the loop iteration made last handed a signal to _process_signal
    delivered,          \* handler -> deliveries of the signal processed last
    \* ---- the PriceBar table of one series, with its timestamp column ----
    tzOffset,           \* the host's local-time offset from UTC, in bar periods
    barRows             \* timestamp -> the row stored under it, or NoRow

cfgVars == <<numPairs, payloads>>

evalVars == <<stratCfg, last_signal_type, evalResult, evalRaised, emitted>>

tradeVars == <<instruments, quotes, venue, open_positions, nextTicket, trailing_stop_enabled,
               lastSignal, lastCount, lastOrders, lastMods, lastRun>>

syncVars == <<running, syncPc, pairIdx, latest, last_sync_times, store,
              bar_listeners, listenerIdx, lastNotified, poll>>

\* history of the synchronizer, kept for the properties that speak of the past
histVars == <<finalizeWrites, finalizeFailed>>

concVars == <<pc, snap, toFill, bookBefore>>

rowVars == <<tzOffset, barRows>>

apiVars == <<heldSameDirection>>

mgrVars == <<signal_handlers, mgrCall, mgrIdx, invoked, visit, gotSignal, delivered>>

loopVars == <<stop_event, trailPc>>

riskVars == <<risk_params, initialized, riskFailure>>

sizeVars == <<sizing, sized>>

probeVars == <<evalCall>>

lifeVars == <<threadPc, sync_thread, stopCall>>

vars == <<cfgVars, syncVars, histVars, evalVars, tradeVars, concVars, rowVars, mgrVars, apiVars,
          loopVars, riskVars, sizeVars, probeVars, lifeVars>>

(***************************************************************************)
(* MT5DataSyncService                                                      *)
(***************************************************************************)
CurPair == PairSeq[pairIdx]

\* data_sync.py:226  "if latest_bar_time > last_sync_time"
IsNewBarNotEqual(latest_bar_time, last_sync_time) == latest_bar_time # last_sync_time
IsNewBarOrEqual(latest_bar_time, last_sync_time) == latest_bar_time >= last_sync_time
IsNewBar(latest_bar_time, last_sync_time) == latest_bar_time > last_sync_time

\* query(PriceBar).filter(key).first(): overwrite the found row, else add one
UpsertRow(rows, v) == IF Len(rows) > 0 THEN <<v>> \o Tail(rows) ELSE <<v>>

\* a finalization pass that adds the row it does not find
UpdateOrInsert(rows, v) == <<v>> \o (IF Len(rows) > 0 THEN Tail(rows) ELSE << >>)

\* _update_previous_bar only rewrites a row that exists
UpdateExisting(rows, v) == IF Len(rows) > 0 THEN <<v>> \o Tail(rows) ELSE rows

\* end of the loop body for one pair: next pair of the tick, or sleep
NextPair ==
    IF pairIdx < numPairs
    THEN /\ syncPc' = "pair"
         /\ pairIdx' = pairIdx + 1
    ELSE /\ syncPc' = "loop"
         /\ pairIdx' = 1

\* the two-pair matrix is explored with one payload, the one-pair matrix
\* with every payload
CfgInit ==
    \/ /\ numPairs = Len(PairSeq)
       /\ payloads = 1
    \/ /\ numPairs = 1
       /\ payloads = MaxVal

SyncInit ==
    /\ running = TRUE
    /\ syncPc = "loop"
    /\ pairIdx = 1
    /\ latest = NoBar
    /\ last_sync_times = [p \in Pairs |-> StartTime]
    /\ store = [p \in Pairs |-> [t \in Times |-> IF t = 0 THEN <<1>> ELSE << >>]]
    /\ bar_listeners = 1
    /\ listenerIdx = 1
    /\ lastNotified = [l \in 1..MaxListeners |-> [p \in Pairs |-> -1]]
    /\ poll = NoPoll
    /\ finalizeWrites = [p \in Pairs |-> [t \in Times |-> 0]]
    /\ finalizeFailed = FALSE

\* add_bar_listener: registration is additive
AddBarListener ==
    /\ bar_listeners < MaxListeners
    /\ bar_listeners' = bar_listeners + 1
    /\ UNCHANGED <<running, syncPc, pairIdx, latest, last_sync_times, store,
                   listenerIdx, lastNotified, poll>>

\* stop(): clears the running flag
StopService ==
    /\ running
    /\ running' = FALSE
    /\ UNCHANGED <<syncPc, pairIdx, latest, last_sync_times, store,
                   bar_listeners, listenerIdx, lastNotified, poll>>

\* _sync_loop: "while self._running", ensure_connection, then the tick
SyncLoopTop ==
    /\ syncPc = "loop"
    /\ \/ /\ ~running
          /\ syncPc' = "stopped"
          /\ UNCHANGED pairIdx
       \/ /\ running
          /\ \E connected \in BOOLEAN :
                IF connected
                THEN /\ syncPc' = "pair"
                     /\ pairIdx' = 1
                ELSE \* log; sleep(retry_delay_seconds); continue
                     /\ syncPc' = "retry"
                     /\ UNCHANGED pairIdx
    /\ UNCHANGED <<running, latest, last_sync_times, store, bar_listeners,
                   listenerIdx, lastNotified, poll>>

\* the loop gives up instead of waiting
RetryTerminates ==
    /\ syncPc = "retry"
    /\ syncPc' = "stopped"
    /\ UNCHANGED <<running, pairIdx, latest, last_sync_times, store, bar_listeners,
                   listenerIdx, lastNotified, poll>>

\* time.sleep(sync_config.retry_delay_seconds); continue: back to the loop test
RetryDelay ==
    /\ syncPc = "retry"
    /\ syncPc' = "loop"
    /\ UNCHANGED <<running, pairIdx, latest, last_sync_times, store, bar_listeners,
                   listenerIdx, lastNotified, poll>>

\* _sync_price_data, lines 205-226: fetch the latest bar and compare with the cursor
FetchLatest ==
    /\ syncPc = "pair"
    /\ \E outcome \in {"none", "error", "bar"} :
          IF outcome = "bar"
          THEN \E t \in Times, v \in 1..payloads :
                  /\ latest' = [time |-> t, val |-> v]
                  /\ IF IsNewBar(t, last_sync_times[CurPair])
                     THEN /\ syncPc' = "finalize"
                          /\ poll' = [NoPoll EXCEPT !.pair = CurPair, !.isNew = TRUE]
                          /\ UNCHANGED pairIdx
                     ELSE /\ poll' = [NoPoll EXCEPT !.pair = CurPair]
                          /\ NextPair
          ELSE /\ latest' = NoBar
               /\ poll' = [NoPoll EXCEPT !.pair = CurPair]
               /\ NextPair
    /\ UNCHANGED <<running, last_sync_times, store, bar_listeners,
                   listenerIdx, lastNotified>>

\* _update_previous_bar: re-fetch position 1 and rewrite its row if it exists;
\* every failure is swallowed
UpdatePreviousBarWith(outcome, tp, v) ==
    /\ syncPc = "finalize"
    /\ IF outcome = "bar"
       THEN /\ tp < latest.time
            /\ store' = [store EXCEPT ![CurPair][tp] = UpdateExisting(@, v)]
       ELSE UNCHANGED store
    /\ syncPc' = "convert"
    /\ poll' = [poll EXCEPT !.finalized = TRUE]
    /\ UNCHANGED <<running, pairIdx, latest, last_sync_times, bar_listeners,
                   listenerIdx, lastNotified>>

UpdatePreviousBar ==
    \E outcome \in {"none", "error", "bar"}, tp \in Times, v \in 1..payloads :
       UpdatePreviousBarWith(outcome, tp, v)

\* _convert_mt5_bar_to_price_bar: returns None on failure ("if latest_bar:")
ConvertBar ==
    /\ syncPc = "convert"
    /\ \E ok \in BOOLEAN :
          IF ok
          THEN /\ syncPc' = "store"
               /\ UNCHANGED pairIdx
          ELSE NextPair
    /\ UNCHANGED <<running, latest, last_sync_times, store, bar_listeners,
                   listenerIdx, lastNotified, poll>>

\* _store_new_bar up to the listener loop: upsert + commit, then the
\* Instrument/Timeframe look-ups.  An exception is re-raised to
\* _sync_price_data; a look-up that finds no row skips the listeners.
StoreNewBarAdvancing ==
    /\ syncPc = "store"
    /\ \E outcome \in {"commit_fails", "lookup_fails", "lookup_none", "ok"} :
          /\ IF outcome = "commit_fails"
             THEN UNCHANGED <<store, poll>>
             ELSE /\ store' = [store EXCEPT ![CurPair][latest.time] =
                                                 UpsertRow(@, latest.val)]
                  /\ poll' = [poll EXCEPT !.stored = TRUE]
          /\ IF outcome \in {"ok", "lookup_none"}
             THEN /\ syncPc' = IF outcome = "ok" /\ bar_listeners > 0
                               THEN "notify" ELSE "advance"
                  /\ listenerIdx' = 1
                  /\ last_sync_times' = [last_sync_times EXCEPT ![CurPair] = latest.time]
                  /\ UNCHANGED pairIdx
             ELSE /\ NextPair
                  /\ UNCHANGED <<listenerIdx, last_sync_times>>
    /\ UNCHANGED <<running, latest, bar_listeners, lastNotified>>

StoreNewBar ==
    /\ syncPc = "store"
    /\ \E outcome \in {"commit_fails", "lookup_fails", "lookup_none", "ok"} :
          /\ IF outcome = "commit_fails"
             THEN UNCHANGED <<store, poll>>
             ELSE /\ store' = [store EXCEPT ![CurPair][latest.time] =
                                                 UpsertRow(@, latest.val)]
                  /\ poll' = [poll EXCEPT !.stored = TRUE]
          /\ IF outcome \in {"ok", "lookup_none"}
             THEN /\ syncPc' = IF outcome = "ok" /\ bar_listeners > 0
                               THEN "notify" ELSE "advance"
                  /\ listenerIdx' = 1
                  /\ UNCHANGED pairIdx
             ELSE /\ NextPair
                  /\ UNCHANGED listenerIdx
    /\ UNCHANGED <<running, latest, last_sync_times, bar_listeners, lastNotified>>

\* one iteration of "for listener in self._bar_listeners": the listener is
\* invoked; an exception it raises is caught and logged
NotifyListener ==
    /\ syncPc = "notify"
    /\ lastNotified' = [lastNotified EXCEPT ![listenerIdx][CurPair] = latest.time]
    /\ poll' = [poll EXCEPT !.notified = @ + 1]
    /\ IF listenerIdx < bar_listeners
       THEN /\ listenerIdx' = listenerIdx + 1
            /\ UNCHANGED syncPc
       ELSE /\ listenerIdx' = 1
            /\ syncPc' = "advance"
    /\ UNCHANGED <<running, pairIdx, latest, last_sync_times, store, bar_listeners>>

\* data_sync.py:237  self._last_sync_times[symbol][tf_name] = latest_bar_time
AdvanceCursorSkipped ==
    /\ syncPc = "advance"
    /\ poll' = [poll EXCEPT !.advanced = TRUE]
    /\ NextPair
    /\ UNCHANGED <<running, latest, last_sync_times, store, bar_listeners,
                   listenerIdx, lastNotified>>

AdvanceCursor ==
    /\ syncPc = "advance"
    /\ last_sync_times' = [last_sync_times EXCEPT ![CurPair] = latest.time]
    /\ poll' = [poll EXCEPT !.advanced = TRUE]
    /\ NextPair
    /\ UNCHANGED <<running, latest, store, bar_listeners, listenerIdx, lastNotified>>

\* the synchronizer touches neither the evaluators nor the trade manager
OutsideSync == UNCHANGED <<cfgVars, histVars, evalVars, tradeVars, concVars, rowVars, mgrVars, apiVars, loopVars, riskVars,
        sizeVars, probeVars, lifeVars>>

SyncNext ==
    \/ AddBarListener /\ OutsideSync
    \/ StopService /\ OutsideSync
    \/ SyncLoopTop /\ OutsideSync
    \/ RetryDelay /\ OutsideSync
    \/ FetchLatest /\ OutsideSync
    \/ UpdatePreviousBar /\ OutsideSync
    \/ ConvertBar /\ OutsideSync
    \/ StoreNewBar /\ OutsideSync
    \/ NotifyListener /\ OutsideSync
    \/ AdvanceCursor /\ OutsideSync

(***************************************************************************)
(* ScalpingStrategy.evaluate                                               *)
(***************************************************************************)
\* sign of a difference of two indicator values: -1 below, 0 equal, 1 above
Signs == {-1, 0, 1}

\* the configurations of an evaluator (custom_parameters of the strategy);
\* numEmas is len(self.ema_values): the default [5, 20, 55] or an empty list
StrategyConfigs ==
    {c \in [rapid_exit : BOOLEAN, require_volume_confirmation : BOOLEAN,
            require_above_long_ema : BOOLEAN, numEmas : {0, 3}] :
        /\ c.numEmas = 0 => ~c.require_above_long_ema
        /\ ~(c.require_volume_confirmation /\ c.require_above_long_ema)}

\* scalping_strategy.py:62-67: the defaults of the custom parameters
DefaultStrategyConfig ==
    [rapid_exit |-> FALSE, require_volume_confirmation |-> FALSE,
     require_above_long_ema |-> FALSE, numEmas |-> 3]

\* what one call of evaluate sees: where it stops early or raises, and the
\* indicator values of the window ending at the bar
\*   stage: "ok", "short_history" (len(bars) < min_bars_needed),
\*          "wide_spread" (new_bar.spread > max_spread_pips),
\*          "raise_early" (data access / indicator computation / log_conditions raises),
\*          "raise_signal" (constructing the Signal raises)
EvalStages == {"ok", "short_history", "wide_spread", "raise_early", "raise_signal"}
\* the stages at which evaluate returns before any indicator is compared
EarlyStages == {"short_history", "wide_spread", "raise_early"}
NoIndicators ==
    [macdPrev |-> 0, macdCur |-> 0, hist |-> 0, rsi |-> "mid", volume |-> TRUE,
     emaOrder |-> 0, priceShort |-> 0, priceLong |-> 0]

\* a value the configuration never makes evaluate read is left at its default
Indicators(cfg) ==
    [macdPrev : Signs,      \* macd_line[-2] vs macd_signal[-2]
     macdCur : Signs,       \* macd_line[-1] vs macd_signal[-1]
     hist : Signs,          \* macd_histogram[-1] vs 0
     rsi : {"oversold", "mid", "overbought"},
     \* prev_volume > avg_volume * threshold
     volume : IF cfg.require_volume_confirmation THEN BOOLEAN ELSE {TRUE},
     \* short_ema[-1] vs medium_ema[-1]
     emaOrder : IF cfg.numEmas >= 2 THEN Signs ELSE {0},
     \* close_prices[-1] vs short_ema[-1]
     priceShort : IF cfg.numEmas >= 2 THEN Signs ELSE {0},
     \* close_prices[-1] vs long_ema[-1]
     priceLong : IF cfg.numEmas >= 3 /\ cfg.require_above_long_ema
                 THEN Signs ELSE {0}]

\* scalping_strategy.py:170-171
macd_crosses_above(ind) == ind.macdPrev <= 0 /\ ind.macdCur > 0
macd_crosses_below(ind) == ind.macdPrev >= 0 /\ ind.macdCur < 0

\* scalping_strategy.py:153-160: True unless confirmation is required
volume_confirmed(cfg, ind) ==
    IF cfg.require_volume_confirmation THEN ind.volume ELSE TRUE

\* the bullish condition without the RSI gate
bullish_signal_any_rsi(cfg, ind) ==
    /\ macd_crosses_above(ind)
    /\ ind.macdCur > 0
    /\ ind.hist > 0
    /\ volume_confirmed(cfg, ind)
    /\ (cfg.numEmas >= 2) =>
          /\ ind.emaOrder > 0
          /\ ind.priceShort > 0
          /\ (cfg.numEmas >= 3 /\ cfg.require_above_long_ema) => ind.priceLong > 0

\* scalping_strategy.py:229-251
bullish_signal(cfg, ind) ==
    /\ macd_crosses_above(ind)
    /\ ind.macdCur > 0
    /\ ind.hist > 0
    /\ ind.rsi # "overbought"
    /\ volume_confirmed(cfg, ind)
    /\ (cfg.numEmas >= 2) =>
          /\ ind.emaOrder > 0
          /\ ind.priceShort > 0
          /\ (cfg.numEmas >= 3 /\ cfg.require_above_long_ema) => ind.priceLong > 0

\* scalping_strategy.py:338-360
bearish_signal(cfg, ind) ==
    /\ macd_crosses_below(ind)
    /\ ind.macdCur < 0
    /\ ind.hist < 0
    /\ ind.rsi # "oversold"
    /\ volume_confirmed(cfg, ind)
    /\ (cfg.numEmas >= 2) =>
          /\ ind.emaOrder < 0
          /\ ind.priceShort < 0
          /\ (cfg.numEmas >= 3 /\ cfg.require_above_long_ema) => ind.priceLong < 0

\* scalping_strategy.py:392-411: exit of a BUY
exit_buy(cfg, ind) ==
    IF cfg.rapid_exit
    THEN \/ macd_crosses_below(ind)
         \/ (cfg.numEmas >= 2 /\ ind.emaOrder < 0)
    ELSE macd_crosses_below(ind)

\* scalping_strategy.py:430-449: exit of a SELL
exit_sell(cfg, ind) ==
    IF cfg.rapid_exit
    THEN \/ macd_crosses_above(ind)
         \/ (cfg.numEmas >= 2 /\ ind.emaOrder > 0)
    ELSE macd_crosses_above(ind)

\* an entry branch without the guard on self.last_signal_type
entry_allowed_always(last, direction) == TRUE

\* scalping_strategy.py:254 / 363: the guard on self.last_signal_type
entry_allowed(last, direction) == last # direction

\* evaluate(new_bar): the value returned ("NONE" for None), the new
\* self.last_signal_type ("NONE" for None), and whether the except clause at
\* 470-474 was taken.  The branches assign self.last_signal_type before they
\* build the Signal, and the except clause does not restore it.
Emit(stage, direction, newLast) ==
    [signal |-> IF stage = "raise_signal" THEN "NONE" ELSE direction,
     last |-> newLast,
     raised |-> (stage = "raise_signal")]

evaluate(last, cfg, stage, ind) ==
    IF stage \in EarlyStages
    THEN [signal |-> "NONE", last |-> last, raised |-> (stage = "raise_early")]
    ELSE IF bullish_signal(cfg, ind) /\ entry_allowed(last, "BUY")
    THEN Emit(stage, "BUY", "BUY")
    ELSE IF bearish_signal(cfg, ind) /\ entry_allowed(last, "SELL")
    THEN Emit(stage, "SELL", "SELL")
    ELSE IF last = "BUY" /\ exit_buy(cfg, ind)
    THEN Emit(stage, "CLOSE", "NONE")
    ELSE IF last = "SELL" /\ exit_sell(cfg, ind)
    THEN Emit(stage, "CLOSE", "NONE")
    ELSE [signal |-> "NONE", last |-> last, raised |-> FALSE]

EvalInit ==
    /\ stratCfg \in StrategyConfigs
    /\ last_signal_type = "NONE"
    /\ evalResult = "NONE"
    /\ evalRaised = FALSE
    /\ emitted = << >>

\* one call of evaluate on the evaluator; emitted is the sequence of the
\* signals it has returned so far
EvaluateWith(stage, ind) ==
    /\ Len(emitted) < MaxEmitted
    /\ LET r == evaluate(last_signal_type, stratCfg, stage, ind) IN
          /\ last_signal_type' = r.last
          /\ evalResult' = r.signal
          /\ evalRaised' = r.raised
          /\ emitted' = IF r.signal = "NONE" THEN emitted
                        ELSE Append(emitted, r.signal)
    /\ UNCHANGED stratCfg

\* the windows a call made at the given stage can see
Windows(stage) ==
    IF stage \in EarlyStages THEN {NoIndicators} ELSE Indicators(stratCfg)

Evaluate == \E stage \in EvalStages : \E ind \in Windows(stage) : EvaluateWith(stage, ind)

\* no call of evaluate is being looked at
NoEvalCall ==
    [stage |-> "none", ind |-> NoIndicators, before |-> "NONE", calls |-> 0,
     first |-> "NONE", between |-> "NONE"]
ProbeInit == evalCall = NoEvalCall

\* an evaluator in any of its three states (what it last emitted is the one
\* entry of emitted) about to be called on a window
GivenInit ==
    /\ stratCfg \in StrategyConfigs
    /\ last_signal_type \in {"NONE", "BUY", "SELL"}
    /\ emitted = IF last_signal_type = "NONE" THEN << >> ELSE <<last_signal_type>>
    /\ evalResult = "NONE"
    /\ evalRaised = FALSE
    /\ \E stage \in EvalStages : \E ind \in Windows(stage) :
          evalCall = [NoEvalCall EXCEPT !.stage = stage, !.ind = ind,
                                        !.before = last_signal_type]

\* the bars and the spread are the same in both calls; whether something
\* raises is not
SameWindowStages(stage) ==
    IF stage \in {"short_history", "wide_spread"} THEN {stage}
    ELSE EvalStages \ {"short_history", "wide_spread"}

\* the call of evaluate on the window
EvaluateGiven ==
    /\ evalCall.calls = 0
    /\ EvaluateWith(evalCall.stage, evalCall.ind)
    /\ evalCall' = [evalCall EXCEPT !.calls = 1, !.first = evalResult',
                                    !.between = last_signal_type']

\* the same evaluator called again on the identical window (the warm-up
\* evaluation followed by the notification for the same bar; a repeated
\* evaluate_all_latest)
EvaluateRepeated ==
    /\ evalCall.calls = 1
    /\ \E stage \in SameWindowStages(evalCall.stage) :
          EvaluateWith(stage, evalCall.ind)
    /\ evalCall' = [evalCall EXCEPT !.calls = 2]

\* evaluate reads the bars and writes only the evaluator
OutsideEval == UNCHANGED <<cfgVars, syncVars, histVars, tradeVars, concVars, rowVars, mgrVars, apiVars, loopVars, riskVars,
        sizeVars, probeVars, lifeVars>>

EvalNext == Evaluate /\ OutsideEval

OutsideGate == UNCHANGED <<cfgVars, syncVars, histVars, tradeVars, concVars, rowVars, mgrVars,
        apiVars, loopVars, riskVars, sizeVars, lifeVars>>

GateNext ==
    \/ EvaluateGiven /\ OutsideGate
    \/ EvaluateRepeated /\ OutsideGate

(***************************************************************************)
(* TradeManager and StrategyManager._process_signal, each handler as one   *)
(* step (the handlers run one after the other)                             *)
(***************************************************************************)
Symbols == {"EURUSD", "GBPUSD"}
Tickets == 1..MaxTickets
Prices == 1..MaxPrice

\* a position at the venue, and its copy in the book with the price_current
\* the venue reported when the book was refreshed
Closed == [symbol |-> "none", type |-> "none", sl |-> 0]
NoPos == [symbol |-> "none", type |-> "none", sl |-> 0, price |-> 0]
NoSignal == [symbol |-> "none", direction |-> "NONE", stop_loss |-> 0]
NoMod == [type |-> "none", old |-> -1, new |-> -1]
EmptyBook == [t \in Tickets |-> NoPos]
NoMods == [t \in Tickets |-> NoMod]

\* signals an evaluator can hand to the manager (scalping_strategy.py:255-280,
\* 364-389, 417-427): the stop of a BUY lies below the entry price, the stop
\* of a SELL above it, and stop_loss is None for CLOSE
Signals ==
    [symbol : instruments, direction : {"BUY"}, stop_loss : {1}]
    \cup [symbol : instruments, direction : {"SELL"}, stop_loss : {MaxPrice}]
    \cup [symbol : instruments, direction : {"CLOSE"}, stop_loss : {0}]

OpenAtVenue == {t \in Tickets : venue[t] # Closed}
OpenTickets(book) == {t \in Tickets : book[t] # NoPos}

\* trade_manager.py:508-524 with symbol=None
get_position_count(book) == Cardinality(OpenTickets(book))

\* trade_manager.py:526-538
check_max_positions_off_by_one(book) == get_position_count(book) <= max_total_positions
check_max_positions(book) == get_position_count(book) < max_total_positions

\* the same-direction test that finds nothing
has_same_direction_never(book, symbol, direction) == FALSE

\* trade_manager.py:152-158 / 258-264: an open position of the signal's direction
has_same_direction(book, symbol, direction) ==
    \E t \in Tickets : book[t].symbol = symbol /\ book[t].type = direction

\* what positions_get() returns: the open positions with their current prices
Snapshot(venueNow, px) ==
    [t \in Tickets |->
        IF venueNow[t] = Closed THEN NoPos
        ELSE [symbol |-> venueNow[t].symbol, type |-> venueNow[t].type,
              sl |-> venueNow[t].sl, price |-> px[t]]]

\* trade_manager.py:66-104 run to completion: positions_get() returns the
\* list ("ok"), returns None ("none") or raises ("raise")
SyncOutcomes == {"ok", "none", "raise"}
sync_positions(outcome, snapshot, book) ==
    IF outcome = "ok" THEN snapshot
    ELSE IF outcome = "none" THEN EmptyBook
    ELSE book

\* the refresh a handler ends with: the new value of the book, when the
\* positions query ends in one of the given outcomes
RefreshedWith(outcomes, venueNow, book, newBook) ==
    \E o \in outcomes :
       IF o = "ok"
       THEN \E px \in [{t \in Tickets : venueNow[t] # Closed} -> quotes] :
               newBook = sync_positions(o, Snapshot(venueNow, px), book)
       ELSE newBook = sync_positions(o, EmptyBook, book)

Refreshed(venueNow, book, newBook) == RefreshedWith(SyncOutcomes, venueNow, book, newBook)

\* trade_manager.py:461-476
trailing_new_sl(type, current_price, current_sl) ==
    IF type = "BUY"
    THEN IF current_price > current_sl + trailing_distance
         THEN current_price - trailing_distance ELSE current_sl
    ELSE IF current_price < current_sl - trailing_distance
         THEN current_price + trailing_distance ELSE current_sl

\* both instruments are explored at one steady quote, one instrument with
\* every quote
\* a handler that returned False before any call of _sync_positions
NoRun == [synced |-> FALSE, result |-> FALSE]

\* the handler sends nothing, leaves the book alone and returns result
Refused(result) ==
    /\ lastOrders' = 0
    /\ lastRun' = [synced |-> FALSE, result |-> result]
    /\ UNCHANGED <<venue, open_positions, nextTicket>>

TradeInit ==
    /\ \/ /\ instruments = Symbols
          /\ quotes = {2}
          /\ trailing_stop_enabled = TRUE
       \/ /\ instruments = {"EURUSD"}
          /\ quotes = Prices
          /\ trailing_stop_enabled \in BOOLEAN
    /\ venue = [t \in Tickets |-> Closed]
    /\ open_positions = EmptyBook
    /\ nextTicket = 1
    /\ lastSignal = NoSignal
    /\ lastCount = 0
    /\ lastOrders = 0
    /\ lastMods = NoMods
    /\ lastRun = NoRun
    /\ heldSameDirection = FALSE

\* what order_send may do for an entry order: accept it, answer with another
\* retcode, or raise
EntryOutcomes == {"done", "rejected", "raise"}

\* an entry handler that sends the order again when the first request fails
order_requests_retrying(retcode) == IF retcode = "done" THEN 1 ELSE 2

\* trade_manager.py:222, 328: the one order_send call of an entry handler
order_requests(retcode) == 1

\* _execute_buy / _execute_sell (trade_manager.py:140-350)
ExecuteEntry(sig) ==
    IF has_same_direction(open_positions, sig.symbol, sig.direction)
    THEN Refused(FALSE)
    ELSE \E info \in {"ok", "no_account", "no_symbol", "raise"} :
            IF info # "ok"
            THEN Refused(FALSE)
            ELSE \E price \in quotes :
                    IF price = sig.stop_loss
                    THEN \* stop_loss_points = 0: the division raises
                         Refused(FALSE)
                    ELSE \E retcode \in EntryOutcomes :
                            /\ lastOrders' = order_requests(retcode)
                            /\ IF retcode = "done" /\ nextTicket <= MaxTickets
                               THEN /\ venue' = [venue EXCEPT ![nextTicket] =
                                                    [symbol |-> sig.symbol,
                                                     type |-> sig.direction,
                                                     sl |-> sig.stop_loss]]
                                    /\ nextTicket' = nextTicket + 1
                                    /\ Refreshed(venue', open_positions, open_positions')
                                    /\ lastRun' = [synced |-> TRUE, result |-> TRUE]
                               ELSE \* retcode != TRADE_RETCODE_DONE, or the
                                    \* except clause: return False
                                    /\ lastRun' = NoRun
                                    /\ UNCHANGED <<venue, open_positions, nextTicket>>

\* the positions of the book a handler reaches before one of its venue calls raises
ReachedBefore(targets, oc, t) ==
    /\ t \in targets
    /\ \A u \in targets : u <= t => oc[u] # "raise"

\* _close_positions (trade_manager.py:352-422)
ClosePositions(sig) ==
    LET targets == {t \in Tickets : open_positions[t].symbol = sig.symbol} IN
    IF targets = {}
    THEN Refused(TRUE)
    ELSE \E oc \in [targets -> {"done", "rejected", "raise"}] :
            LET sent == {t \in targets : ReachedBefore(targets, oc, t)} IN
               /\ lastOrders' = Cardinality(sent)
               /\ venue' = [t \in Tickets |->
                               IF t \in sent /\ oc[t] = "done" THEN Closed ELSE venue[t]]
               /\ IF \E t \in targets : oc[t] = "raise"
                  THEN /\ lastRun' = NoRun
                       /\ UNCHANGED open_positions
                  ELSE /\ lastRun' = [synced |-> TRUE,
                                      result |-> \A t \in targets : oc[t] = "done"]
                       /\ Refreshed(venue', open_positions, open_positions')
               /\ UNCHANGED nextTicket

\* TradeManager.process_signal (trade_manager.py:106-138)
process_signal(sig) ==
    \E connected \in BOOLEAN :
       IF ~connected
       THEN Refused(FALSE)
       ELSE IF sig.direction \in {"BUY", "SELL"}
            THEN ExecuteEntry(sig)
            ELSE IF sig.direction = "CLOSE"
            THEN ClosePositions(sig)
            ELSE \* unknown direction: logged, return False
                 Refused(FALSE)

\* strategy_manager.py:277: an entry signal while check_max_positions() is False
CapBlocks(sig) ==
    sig.direction \in {"BUY", "SELL"} /\ ~check_max_positions(open_positions)

\* StrategyManager._process_signal (strategy_manager.py:258-313) on the book
\* and the venue
ProcessSignalWith(sig) ==
    /\ lastSignal' = sig
    /\ lastCount' = get_position_count(open_positions)
    /\ IF CapBlocks(sig)
       THEN Refused(FALSE)
       ELSE process_signal(sig)
    /\ lastMods' = NoMods
    /\ UNCHANGED <<instruments, quotes, trailing_stop_enabled>>

ProcessSignal == \E sig \in Signals : ProcessSignalWith(sig)

\* update_trailing_stops (trade_manager.py:424-506); lastMods records the
\* stop modifications the pass has sent. modOutcomes: what symbol_info and
\* order_send may do for a position, syncOutcomes: what the final positions
\* query may do
UpdateTrailingStopsWith(modOutcomes, syncOutcomes) ==
    /\ IF OpenTickets(open_positions) = {} \/ ~trailing_stop_enabled
       THEN /\ lastMods' = NoMods
            /\ lastRun' = NoRun
            /\ UNCHANGED <<venue, open_positions>>
       ELSE LET targets == {t \in OpenTickets(open_positions) :
                               open_positions[t].sl # 0}
                newSl(t) == trailing_new_sl(open_positions[t].type,
                                            open_positions[t].price,
                                            open_positions[t].sl)
            IN \E oc \in [targets -> modOutcomes] :
                  LET sent == {t \in targets :
                                  /\ ReachedBefore(targets, oc, t)
                                  /\ oc[t] # "no_info"
                                  /\ newSl(t) # open_positions[t].sl}
                  IN /\ lastMods' = [t \in Tickets |->
                                        IF t \in sent
                                        THEN [type |-> open_positions[t].type,
                                              old |-> open_positions[t].sl,
                                              new |-> newSl(t)]
                                        ELSE NoMod]
                     /\ venue' = [t \in Tickets |->
                                     IF t \in sent /\ oc[t] = "done" /\ venue[t] # Closed
                                     THEN [venue[t] EXCEPT !.sl = newSl(t)]
                                     ELSE venue[t]]
                     /\ IF \E t \in targets : oc[t] = "raise"
                        THEN /\ lastRun' = NoRun
                             /\ UNCHANGED open_positions
                        ELSE /\ lastRun' = [synced |-> TRUE, result |-> FALSE]
                             /\ RefreshedWith(syncOutcomes, venue', open_positions,
                                              open_positions')
    /\ lastSignal' = NoSignal
    /\ lastCount' = 0
    /\ lastOrders' = 0
    /\ UNCHANGED <<instruments, quotes, nextTicket, trailing_stop_enabled>>

ModOutcomes == {"done", "rejected", "no_info", "raise"}
UpdateTrailingStops == UpdateTrailingStopsWith(ModOutcomes, SyncOutcomes)

\* a pass during which the venue is reachable: every venue call returns
UpdateTrailingStopsReachable == UpdateTrailingStopsWith({"done", "rejected"}, {"ok"})

\* the venue closes a position (stop-loss or take-profit hit)
VenueClose ==
    /\ \E t \in OpenAtVenue : venue' = [venue EXCEPT ![t] = Closed]
    /\ UNCHANGED <<instruments, quotes, open_positions, nextTicket,
                   trailing_stop_enabled, lastSignal, lastCount, lastOrders, lastMods, lastRun>>

\* handlers run one at a time: no thread is inside a handler
OutsideTrade == UNCHANGED <<cfgVars, syncVars, histVars, evalVars, concVars, rowVars, mgrVars, apiVars, loopVars, riskVars,
        sizeVars, probeVars, lifeVars>>

TradeNext ==
    \/ ProcessSignal /\ OutsideTrade
    \/ UpdateTrailingStops /\ OutsideTrade
    \/ VenueClose /\ OutsideTrade

\* TradeManager.process_signal called on the registered TradeManager by a
\* caller other than StrategyManager._process_signal
CallProcessSignal ==
    /\ \E sig \in Signals :
          /\ lastSignal' = sig
          /\ lastCount' = get_position_count(open_positions)
          /\ heldSameDirection' =
                (\E t \in Tickets : /\ open_positions[t].symbol = sig.symbol
                                    /\ open_positions[t].type = sig.direction)
          /\ process_signal(sig)
    /\ lastMods' = NoMods
    /\ UNCHANGED <<instruments, quotes, trailing_stop_enabled>>

OutsideApi == UNCHANGED <<cfgVars, syncVars, histVars, evalVars, concVars, rowVars, mgrVars, loopVars, riskVars,
        sizeVars, probeVars, lifeVars>>

ApiNext ==
    \/ CallProcessSignal /\ OutsideApi
    \/ UpdateTrailingStops /\ OutsideTrade
    \/ VenueClose /\ OutsideTrade

(***************************************************************************)
(* The same handlers as two threads: the sync thread runs the signal path  *)
(* (strategy_manager.py:258-313 -> trade_manager.py:106-422), the thread   *)
(* of main.py:15-27 runs update_trailing_stops; a step is the code between *)
(* two accesses of the shared book.  No lock is taken anywhere in          *)
(* trade_manager.py.                                                       *)
(***************************************************************************)
Threads == {"signal", "trailing"}
Other(th) == IF th = "signal" THEN "trailing" ELSE "signal"
ConcInit ==
    /\ pc = [th \in Threads |-> "idle"]
    /\ snap = [th \in Threads |-> EmptyBook]
    /\ toFill = [th \in Threads |-> {}]
    /\ bookBefore = [th \in Threads |-> EmptyBook]

\* _sync_positions, trade_manager.py:70-74: positions = mt5.positions_get()
SyncGet(th) ==
    /\ pc[th] = "sync_get"
    /\ \E o \in SyncOutcomes :
          IF o = "ok"
          THEN /\ \E price \in quotes :
                     snap' = [snap EXCEPT ![th] =
                                 Snapshot(venue, [t \in OpenAtVenue |-> price])]
               /\ pc' = [pc EXCEPT ![th] = "sync_clear"]
               /\ UNCHANGED open_positions
          ELSE /\ open_positions' = sync_positions(o, EmptyBook, open_positions)
               /\ pc' = [pc EXCEPT ![th] = "idle"]
               /\ UNCHANGED snap
    /\ UNCHANGED <<instruments, quotes, venue, nextTicket, trailing_stop_enabled,
                   lastSignal, lastCount, lastOrders, lastMods, lastRun,
                   toFill, bookBefore>>

\* trade_manager.py:77  self._open_positions = {}
SyncClear(th) ==
    /\ pc[th] = "sync_clear"
    /\ open_positions' = EmptyBook
    /\ IF OpenTickets(snap[th]) = {}
       THEN /\ pc' = [pc EXCEPT ![th] = "idle"]
            /\ snap' = [snap EXCEPT ![th] = EmptyBook]
            /\ UNCHANGED <<toFill, bookBefore>>
       ELSE /\ pc' = [pc EXCEPT ![th] = "sync_fill"]
            /\ toFill' = [toFill EXCEPT ![th] = OpenTickets(snap[th])]
            /\ bookBefore' = [bookBefore EXCEPT ![th] = open_positions]
            /\ UNCHANGED snap
    /\ UNCHANGED <<instruments, quotes, venue, nextTicket, trailing_stop_enabled,
                   lastSignal, lastCount, lastOrders, lastMods, lastRun>>

\* trade_manager.py:80-99: one iteration of "for position in positions"; the
\* thread's locals are dropped when the loop ends
SyncFill(th) ==
    /\ pc[th] = "sync_fill"
    /\ LET t == CHOOSE u \in toFill[th] : \A w \in toFill[th] : u <= w IN
          /\ open_positions' = [open_positions EXCEPT ![t] = snap[th][t]]
          /\ toFill' = [toFill EXCEPT ![th] = @ \ {t}]
          /\ IF toFill[th] = {t}
             THEN /\ pc' = [pc EXCEPT ![th] = "idle"]
                  /\ snap' = [snap EXCEPT ![th] = EmptyBook]
                  /\ bookBefore' = [bookBefore EXCEPT ![th] = EmptyBook]
             ELSE UNCHANGED <<pc, snap, bookBefore>>
    /\ UNCHANGED <<instruments, quotes, venue, nextTicket, trailing_stop_enabled,
                   lastSignal, lastCount, lastOrders, lastMods, lastRun>>

\* strategy_manager.py:274-283: the position-cap check of an arriving signal
SigCheckCap ==
    /\ pc["signal"] = "idle"
    /\ \E sig \in Signals :
          IF sig.direction \in {"BUY", "SELL"} /\ ~check_max_positions(open_positions)
          THEN UNCHANGED <<lastSignal, pc>>
          ELSE /\ lastSignal' = sig
               /\ pc' = [pc EXCEPT !["signal"] = "process"]
    /\ UNCHANGED <<instruments, quotes, venue, open_positions, nextTicket,
                   trailing_stop_enabled, lastCount, lastOrders, lastMods, lastRun,
                   snap, toFill, bookBefore>>

\* trade_manager.py:106-422 up to the call of _sync_positions
SigProcess ==
    /\ pc["signal"] = "process"
    /\ \E connected \in BOOLEAN, info \in {"ok", "no_account", "no_symbol", "raise"},
          price \in quotes, retcode \in {"done", "rejected"} :
          LET sig == lastSignal
              targets == {t \in Tickets : open_positions[t].symbol = sig.symbol}
          IN IF sig.direction = "CLOSE"
             THEN IF ~connected \/ targets = {} \/ info = "raise"
                  THEN /\ pc' = [pc EXCEPT !["signal"] = "idle"]
                       /\ UNCHANGED <<venue, nextTicket>>
                  ELSE /\ venue' = [t \in Tickets |->
                                       IF t \in targets /\ retcode = "done"
                                       THEN Closed ELSE venue[t]]
                       /\ pc' = [pc EXCEPT !["signal"] = "sync_get"]
                       /\ UNCHANGED nextTicket
             ELSE IF \/ ~connected
                     \/ has_same_direction(open_positions, sig.symbol, sig.direction)
                     \/ info # "ok"
                     \/ price = sig.stop_loss
                     \/ retcode # "done"
                     \/ nextTicket > MaxTickets
                  THEN /\ pc' = [pc EXCEPT !["signal"] = "idle"]
                       /\ UNCHANGED <<venue, nextTicket>>
                  ELSE /\ venue' = [venue EXCEPT ![nextTicket] =
                                       [symbol |-> sig.symbol,
                                        type |-> sig.direction,
                                        sl |-> sig.stop_loss]]
                       /\ nextTicket' = nextTicket + 1
                       /\ pc' = [pc EXCEPT !["signal"] = "sync_get"]
    /\ lastSignal' = NoSignal
    /\ UNCHANGED <<instruments, quotes, open_positions, trailing_stop_enabled,
                   lastCount, lastOrders, lastMods, lastRun, snap, toFill, bookBefore>>

\* trade_manager.py:426-500: the pass up to the call of _sync_positions
TrailPass ==
    /\ pc["trailing"] = "idle"
    /\ OpenTickets(open_positions) # {}
    /\ trailing_stop_enabled
    /\ LET targets == {t \in OpenTickets(open_positions) : open_positions[t].sl # 0}
           newSl(t) == trailing_new_sl(open_positions[t].type,
                                       open_positions[t].price,
                                       open_positions[t].sl)
       IN \E oc \in [targets -> {"done", "rejected", "no_info", "raise"}] :
             LET sent == {t \in targets :
                             /\ ReachedBefore(targets, oc, t)
                             /\ oc[t] # "no_info"
                             /\ newSl(t) # open_positions[t].sl}
             IN /\ venue' = [t \in Tickets |->
                                IF t \in sent /\ oc[t] = "done" /\ venue[t] # Closed
                                THEN [venue[t] EXCEPT !.sl = newSl(t)]
                                ELSE venue[t]]
                /\ pc' = [pc EXCEPT !["trailing"] =
                             IF \E t \in targets : oc[t] = "raise"
                             THEN "idle" ELSE "sync_get"]
    /\ UNCHANGED <<instruments, quotes, open_positions, nextTicket,
                   trailing_stop_enabled, lastSignal, lastCount, lastOrders, lastMods, lastRun,
                   snap, toFill, bookBefore>>

\* the two threads touch neither the synchronizer nor the evaluators
OutsideConc == UNCHANGED <<cfgVars, syncVars, histVars, evalVars, rowVars, mgrVars, apiVars, loopVars, riskVars,
        sizeVars, probeVars, lifeVars>>

ConcNext ==
    \/ SigCheckCap /\ OutsideConc
    \/ SigProcess /\ OutsideConc
    \/ TrailPass /\ OutsideConc
    \/ \E th \in Threads : SyncGet(th) /\ OutsideConc
    \/ \E th \in Threads : SyncClear(th) /\ OutsideConc
    \/ \E th \in Threads : SyncFill(th) /\ OutsideConc

(***************************************************************************)
(* The PriceBar table as the history fetch and the synchronizer write it:  *)
(* the rows of one series (every query filters on instrument_id and        *)
(* timeframe_id) with the value of their timestamp column.                 *)
(***************************************************************************)
\* data_fetcher.py:257  pd.to_datetime(df['time'], unit='s'): the UTC wall clock
utc_timestamp(epoch) == epoch

\* data_sync.py:405, 446  datetime.fromtimestamp(bar_data['time']): the host's
\* local wall clock
local_timestamp(epoch) == epoch + tzOffset

\* values the timestamp column can take
StoreKeys == 0..(MaxTime + MaxTzOffset)

\* a row: the venue bar (by its open_time) whose OHLCV it holds, and the OHLCV
NoRow == [bar |-> -1, val |-> 0]

\* query(PriceBar).filter(timestamp == key).first(): overwrite the OHLCV of
\* the row found, else add a row
UpsertAt(table, key, bar, v) == [table EXCEPT ![key] = [bar |-> bar, val |-> v]]

\* the same query; nothing is added when no row is found
UpdateAt(table, key, bar, v) ==
    IF table[key] = NoRow THEN table ELSE [table EXCEPT ![key] = [bar |-> bar, val |-> v]]

\* the history fetch stores the bars lo..hi one after the other
RECURSIVE StoreRange(_, _, _, _)
StoreRange(table, lo, hi, vals) ==
    IF lo > hi THEN table
    ELSE StoreRange(UpsertAt(table, utc_timestamp(lo), lo, vals[lo]), lo + 1, hi, vals)

RowInit ==
    /\ tzOffset \in 0..MaxTzOffset
    /\ barRows = [k \in StoreKeys |-> NoRow]

\* MT5DataFetcher._store_price_bars: the latest bars lo..hi of the series,
\* one commit for the batch
StorePriceBars ==
    /\ \E lo \in Times, hi \in Times :
          /\ lo <= hi
          /\ \E vals \in [lo..hi -> 1..MaxVal], committed \in BOOLEAN :
                barRows' = IF committed THEN StoreRange(barRows, lo, hi, vals)
                           ELSE barRows
    /\ UNCHANGED tzOffset

\* MT5DataSyncService._store_new_bar on the bar _convert_mt5_bar_to_price_bar built
StoreNewBarRow ==
    /\ \E t \in Times, v \in 1..MaxVal, committed \in BOOLEAN :
          barRows' = IF committed THEN UpsertAt(barRows, local_timestamp(t), t, v)
                     ELSE barRows
    /\ UNCHANGED tzOffset

\* MT5DataSyncService._update_previous_bar
UpdatePreviousBarRow ==
    /\ \E t \in Times, v \in 1..MaxVal, committed \in BOOLEAN :
          barRows' = IF committed THEN UpdateAt(barRows, local_timestamp(t), t, v)
                     ELSE barRows
    /\ UNCHANGED tzOffset

\* the table is written by nothing else
OutsideRows == UNCHANGED <<cfgVars, syncVars, histVars, evalVars, tradeVars, concVars, mgrVars, apiVars, loopVars, riskVars,
        sizeVars, probeVars, lifeVars>>

RowNext ==
    \/ StorePriceBars /\ OutsideRows
    \/ StoreNewBarRow /\ OutsideRows
    \/ UpdatePreviousBarRow /\ OutsideRows

(***************************************************************************)
(* StrategyManager: the loops of _on_new_bar and evaluate_all_latest over   *)
(* the registered evaluators, one loop iteration a step, and the signal     *)
(* handlers of _process_signal.  What an evaluator returns for a bar is     *)
(* left open here (any signal for its symbol, or None).                     *)
(***************************************************************************)
\* self._strategies[symbol][strategy_name][timeframe], in creation order
StrategySeq ==
    << [symbol |-> "EURUSD", name |-> "scalping_a", timeframe |-> "M1"],
       [symbol |-> "EURUSD", name |-> "scalping_b", timeframe |-> "M1"],
       [symbol |-> "GBPUSD", name |-> "scalping_a", timeframe |-> "M5"] >>

Evaluators == 1..Len(StrategySeq)

\* TimeFrameType(timeframe) succeeds for these
TimeFrameTypes == {"M1", "M5"}

\* bar events the synchronizer can deliver
BarSymbols == Symbols \cup {"USDJPY"}
BarTimeframes == TimeFrameTypes \cup {"bad"}

NoCall == [kind |-> "none", symbol |-> "none", timeframe |-> "none", returned |-> TRUE]
NoVisits == [e \in Evaluators |-> "unvisited"]
NoInvocations == [e \in Evaluators |-> 0]
NoDeliveries == [h \in 1..MaxHandlers |-> 0]

MgrInit ==
    /\ signal_handlers = 0
    /\ mgrCall = NoCall
    /\ mgrIdx = 1
    /\ invoked = NoInvocations
    /\ visit = NoVisits
    /\ gotSignal = FALSE
    /\ delivered = NoDeliveries

\* add_signal_handler (strategy_manager.py:233-240)
AddSignalHandler ==
    /\ signal_handlers < MaxHandlers
    /\ signal_handlers' = signal_handlers + 1
    /\ UNCHANGED <<mgrCall, mgrIdx, invoked, visit, gotSignal, delivered>>

\* strategy_manager.py:283 returns before the handler loop of 301-310; past
\* it every handler is called, an exception of one is caught and logged
Deliveries(sig) ==
    IF CapBlocks(sig)
    THEN NoDeliveries
    ELSE [h \in 1..MaxHandlers |-> IF h <= signal_handlers THEN 1 ELSE 0]

\* _process_signal(signal): the trade manager, then the handlers
ProcessAndDeliver(sig) ==
    /\ ProcessSignalWith(sig)
    /\ delivered' = Deliveries(sig)

\* strategy.evaluate(bar) on evaluator e, then _process_signal if it returned a signal
EvaluateAndProcess(e) ==
    /\ invoked' = [invoked EXCEPT ![e] = @ + 1]
    /\ visit' = [visit EXCEPT ![e] = "evaluated"]
    /\ \/ /\ gotSignal' = FALSE
          /\ UNCHANGED <<tradeVars, delivered>>
       \/ \E sig \in Signals :
             /\ sig.symbol = StrategySeq[e].symbol
             /\ gotSignal' = TRUE
             /\ ProcessAndDeliver(sig)

\* end of one loop iteration
NextEvaluator ==
    /\ mgrIdx' = mgrIdx + 1
    /\ mgrCall' = IF mgrIdx = Len(StrategySeq)
                  THEN [mgrCall EXCEPT !.returned = TRUE] ELSE mgrCall

\* _on_new_bar up to the loop: unknown symbol and unknown timeframe return
OnNewBar ==
    /\ mgrCall.returned
    /\ \E symbol \in BarSymbols, timeframe \in BarTimeframes :
          mgrCall' = [kind |-> "bar", symbol |-> symbol, timeframe |-> timeframe,
                      returned |-> ~(\E e \in Evaluators : StrategySeq[e].symbol = symbol)
                                   \/ timeframe \notin TimeFrameTypes]
    /\ mgrIdx' = 1
    /\ invoked' = NoInvocations
    /\ visit' = NoVisits
    /\ gotSignal' = FALSE
    /\ UNCHANGED <<signal_handlers, delivered, tradeVars>>

Matches(e) ==
    /\ StrategySeq[e].symbol = mgrCall.symbol
    /\ StrategySeq[e].timeframe = mgrCall.timeframe

\* one iteration of the loop of _on_new_bar (strategy_manager.py:187-197)
OnNewBarStep ==
    /\ mgrCall.kind = "bar" /\ ~mgrCall.returned
    /\ IF Matches(mgrIdx)
       THEN EvaluateAndProcess(mgrIdx)
       ELSE /\ visit' = [visit EXCEPT ![mgrIdx] = "skipped"]
            /\ gotSignal' = FALSE
            /\ UNCHANGED <<invoked, delivered, tradeVars>>
    /\ NextEvaluator
    /\ UNCHANGED signal_handlers

\* evaluate_all_latest up to the loop
EvaluateAllLatest ==
    /\ mgrCall.returned
    /\ mgrCall' = [kind |-> "manual", symbol |-> "none", timeframe |-> "none",
                   returned |-> FALSE]
    /\ mgrIdx' = 1
    /\ invoked' = NoInvocations
    /\ visit' = NoVisits
    /\ gotSignal' = FALSE
    /\ UNCHANGED <<signal_handlers, delivered, tradeVars>>

\* the loop ends here: the one try of evaluate_all_latest encloses it
AbortLoop ==
    /\ mgrIdx' = mgrIdx
    /\ mgrCall' = [mgrCall EXCEPT !.returned = TRUE]

\* one iteration of the loop of evaluate_all_latest (strategy_manager.py:217-227):
\* get_latest_price_bar returns a bar, returns None, or raises
\* (repository.py:110-155 logs and re-raises)
EvaluateAllStep ==
    /\ mgrCall.kind = "manual" /\ ~mgrCall.returned
    /\ \E bar \in {"bar", "none", "raise"} :
          CASE bar = "bar" -> EvaluateAndProcess(mgrIdx) /\ NextEvaluator
            [] bar = "none" -> /\ visit' = [visit EXCEPT ![mgrIdx] = "skipped"]
                               /\ gotSignal' = FALSE
                               /\ UNCHANGED <<invoked, delivered, tradeVars>>
                               /\ NextEvaluator
            [] bar = "raise" -> /\ visit' = [visit EXCEPT ![mgrIdx] = "failed"]
                                /\ gotSignal' = FALSE
                               /\ UNCHANGED <<invoked, delivered, tradeVars>>
                                /\ AbortLoop
    /\ UNCHANGED signal_handlers

\* the manager leaves the synchronizer's and the evaluators' state alone
OutsideMgr == UNCHANGED <<cfgVars, syncVars, histVars, evalVars, concVars, rowVars, apiVars, loopVars, riskVars,
        sizeVars, probeVars, lifeVars>>

MgrNext ==
    \/ AddSignalHandler /\ UNCHANGED tradeVars /\ OutsideMgr
    \/ OnNewBar /\ OutsideMgr
    \/ OnNewBarStep /\ OutsideMgr
    \/ EvaluateAllLatest /\ OutsideMgr
    \/ EvaluateAllStep /\ OutsideMgr

\* the parts a specification leaves alone start in one fixed configuration
\* main.py:70-73: the event is created clear and the thread starts at its loop test
LoopInit ==
    /\ stop_event = FALSE
    /\ trailPc = "check"

(***************************************************************************)
(* position sizing (trade_manager.py:160-201, 266-307)                     *)
(***************************************************************************)
\* account balance / equity, in account currency
Amounts == {10000, 20000}
\* max_risk_per_trade_percent
RiskPercents == 1..MaxRiskPercent
\* price levels, in points of the symbol (symbol_info.point is one unit)
Levels == {0, 50, 100}
\* symbol_info.trade_tick_value, with trade_tick_size of one point
TickValues == 1..MaxTickValue
\* symbol_info.volume_step / volume_min / volume_max, in lots
LotSteps == 1..MaxLotStep
MinLots == 1..MaxLotStep
MaxLots == MaxLotStep..(MaxLotStep + 1)

SizingInputs ==
    [balance : Amounts, equity : Amounts, risk_percent : RiskPercents,
     entry_price : Levels, quote : Levels, stop_loss : Levels,
     tick_value : TickValues, volume_step : LotSteps,
     volume_min : MinLots, volume_max : MaxLots]

\* an exact quotient num / den (the floats of the code without rounding error)
Quot(num, den) == [num |-> num, den |-> den]
NoQuot == Quot(0, 1)
SameQuot(a, b) == a.num * b.den = b.num * a.den

Abs(x) == IF x < 0 THEN -x ELSE x

\* Python round() of num / den, den > 0, num >= 0: nearest integer, ties to even
round(num, den) ==
    LET q == num \div den
        r == num % den
    IN IF 2 * r < den THEN q
       ELSE IF 2 * r > den THEN q + 1
       ELSE IF q % 2 = 0 THEN q ELSE q + 1

\* trade_manager.py:166-194: volume_lots before rounding, from the account
\* balance and the distance between the live quote (ask / bid) and the stop:
\* risk_amount / stop_loss_points / point_value
volume_lots(in) ==
    Quot(in.balance * in.risk_percent,
         100 * Abs(in.quote - in.stop_loss) * in.tick_value)

\* trade_manager.py:196-198: round(volume_lots / lot_step) * lot_step
round_to_step(v, lot_step) == round(v.num, v.den * lot_step) * lot_step

\* a request built without the volume limits
clamp_skipped(v, volume_min, volume_max) == v

\* trade_manager.py:201: max(volume_min, min(volume_max, volume_lots))
clamp(v, volume_min, volume_max) ==
    LET capped == IF volume_max < v THEN volume_max ELSE v
    IN IF volume_min > capped THEN volume_min ELSE capped

NoSize == [sent |-> FALSE, raw |-> NoQuot, rounded |-> 0, volume |-> 0]

SizeInit ==
    /\ sizing \in SizingInputs
    /\ sized = NoSize

\* no entry is being sized
SizeRest ==
    /\ sizing = [balance |-> 10000, equity |-> 10000, risk_percent |-> 1,
                 entry_price |-> 100, quote |-> 100, stop_loss |-> 50,
                 tick_value |-> 1, volume_step |-> 1,
                 volume_min |-> 1, volume_max |-> MaxLotStep]
    /\ sized = NoSize

\* _execute_buy / _execute_sell from account_info() to the order request
\* (trade_manager.py:160-216); a stop at the quote makes stop_loss_points 0
\* and the division raises: no request is built
SizeEntryOrder ==
    /\ ~sized.sent
    /\ sizing.quote # sizing.stop_loss
    /\ LET raw == volume_lots(sizing)
           rounded == round_to_step(raw, sizing.volume_step)
       IN sized' = [sent |-> TRUE, raw |-> raw, rounded |-> rounded,
                    volume |-> clamp(rounded, sizing.volume_min, sizing.volume_max)]
    /\ UNCHANGED sizing

\* the next entry signal arrives: account, quote and signal are read anew
NextEntry ==
    /\ sized.sent
    /\ sizing' \in {in \in SizingInputs :
                       /\ in.tick_value = sizing.tick_value
                       /\ in.volume_step = sizing.volume_step
                       /\ in.volume_min = sizing.volume_min
                       /\ in.volume_max = sizing.volume_max
                       /\ in.risk_percent = sizing.risk_percent}
    /\ sized' = NoSize

OutsideSizing == UNCHANGED <<cfgVars, syncVars, histVars, evalVars, tradeVars, concVars, rowVars,
        mgrVars, apiVars, loopVars, riskVars, probeVars, lifeVars>>

SizeNext ==
    \/ SizeEntryOrder /\ OutsideSizing
    \/ NextEntry /\ OutsideSizing

\* the threads start() can create
SyncThreads == 1..MaxThreads

\* no start() or stop() call is looked at: the thread is the one of syncPc
LifeRest ==
    /\ threadPc = [th \in SyncThreads |-> "none"]
    /\ sync_thread = 0
    /\ stopCall = "idle"

\* the configuration carries the risk parameters and main.py:57 has run
\* TradeManager.initialize
RiskRest ==
    /\ risk_params = TRUE
    /\ initialized = TRUE
    /\ riskFailure = FALSE

CfgRest == CfgInit /\ payloads = 1
EvalRest == EvalInit /\ stratCfg = DefaultStrategyConfig
TradeRest == TradeInit /\ instruments = Symbols
RowRest == RowInit /\ tzOffset = 0

\* the synchronizer polling the venue
SyncSpecInit == CfgInit /\ SyncInit /\ EvalRest /\ TradeRest /\ ConcInit /\ RowRest /\ MgrInit /\ LoopInit /\ RiskRest /\ SizeRest /\ ProbeInit /\ LifeRest
SyncSpec ==
    SyncSpecInit
    /\ [][SyncNext]_vars

\* the tick with the finalization pass's writes counted
OutsideSyncCounted == UNCHANGED <<cfgVars, evalVars, tradeVars, concVars, rowVars, mgrVars, apiVars, loopVars, riskVars,
        sizeVars, probeVars, lifeVars>>

\* a poll starts: nothing of it has failed yet
FetchLatestCounted ==
    /\ FetchLatest
    /\ finalizeFailed' = FALSE
    /\ UNCHANGED finalizeWrites

UpdatePreviousBarCounted ==
    \E outcome \in {"none", "error", "bar"}, tp \in Times, v \in 1..payloads :
       /\ UpdatePreviousBarWith(outcome, tp, v)
       /\ finalizeFailed' = (outcome = "error")
       /\ finalizeWrites' =
             IF outcome = "bar" /\ Len(store[CurPair][tp]) > 0
                                /\ finalizeWrites[CurPair][tp] < MaxWrites
             THEN [finalizeWrites EXCEPT ![CurPair][tp] = @ + 1]
             ELSE finalizeWrites

FinalizeNext ==
    \/ AddBarListener /\ OutsideSync
    \/ StopService /\ OutsideSync
    \/ SyncLoopTop /\ OutsideSync
    \/ RetryDelay /\ OutsideSync
    \/ FetchLatestCounted /\ OutsideSyncCounted
    \/ UpdatePreviousBarCounted /\ OutsideSyncCounted
    \/ ConvertBar /\ OutsideSync
    \/ StoreNewBar /\ OutsideSync
    \/ NotifyListener /\ OutsideSync
    \/ AdvanceCursor /\ OutsideSync

\* one configured pair is enough to poll the same bar twice
FinalizeSpecInit == SyncSpecInit /\ numPairs = 1
FinalizeSpec ==
    FinalizeSpecInit
    /\ [][FinalizeNext]_vars

\* one evaluator called on arbitrary bar windows
EvalSpecInit == CfgRest /\ SyncInit /\ EvalInit /\ TradeRest /\ ConcInit /\ RowRest /\ MgrInit /\ LoopInit /\ RiskRest /\ SizeRest /\ ProbeInit /\ LifeRest
EvalSpec ==
    EvalSpecInit
    /\ [][EvalNext]_vars

(***************************************************************************)
(* start() and stop() of MT5DataSyncService (data_sync.py:120-163) and the *)
(* _sync_loop threads they create, each tick as one step                   *)
(***************************************************************************)
\* main.py:66 has called start(): the flag is set and the first thread is at
\* its loop test
LifeInit ==
    /\ threadPc = [th \in SyncThreads |-> IF th = 1 THEN "test" ELSE "none"]
    /\ sync_thread = 1
    /\ stopCall = "idle"

\* start() (data_sync.py:120-150), called when no stop() is in progress
Start ==
    /\ stopCall # "joining"
    /\ IF running
       THEN \* "already running": return
            UNCHANGED <<running, threadPc, sync_thread, stopCall>>
       ELSE /\ sync_thread < MaxThreads
            /\ running' = TRUE
            /\ sync_thread' = sync_thread + 1
            /\ threadPc' = [threadPc EXCEPT ![sync_thread + 1] = "test"]
            /\ stopCall' = "idle"
    /\ UNCHANGED <<last_sync_times, store, lastNotified>>

\* stop() up to the join (data_sync.py:156-161)
Stop ==
    /\ stopCall # "joining"
    /\ IF running
       THEN /\ running' = FALSE
            /\ stopCall' = IF sync_thread # 0 /\ threadPc[sync_thread] # "ended"
                           THEN "joining" ELSE "returned"
       ELSE /\ stopCall' = "returned"
            /\ UNCHANGED running
    /\ UNCHANGED <<threadPc, sync_thread, last_sync_times, store, lastNotified>>

\* self._sync_thread.join(timeout=5.0) returns: the thread has ended, or
\* five seconds have passed
JoinReturns ==
    /\ stopCall = "joining"
    /\ stopCall' = "returned"
    /\ UNCHANGED <<running, threadPc, sync_thread, last_sync_times, store, lastNotified>>

\* "while self._running:" evaluated by a thread
LoopTest(th) ==
    /\ threadPc[th] = "test"
    /\ threadPc' = [threadPc EXCEPT ![th] = IF running THEN "tick" ELSE "ended"]
    /\ UNCHANGED <<running, sync_thread, stopCall, last_sync_times, store, lastNotified>>

\* _sync_price_data on a pair whose latest bar at the venue has open_time t:
\* a bar newer than the cursor is stored, the listeners are notified of it
\* and the cursor is advanced
PollPair(p, t) ==
    IF IsNewBar(t, last_sync_times[p])
    THEN /\ store' = [store EXCEPT ![p][t] = UpsertRow(@, 1)]
         /\ lastNotified' = [l \in 1..MaxListeners |->
                                 IF l <= bar_listeners
                                 THEN [lastNotified[l] EXCEPT ![p] = t]
                                 ELSE lastNotified[l]]
         /\ last_sync_times' = [last_sync_times EXCEPT ![p] = t]
    ELSE UNCHANGED <<last_sync_times, store, lastNotified>>

\* the body of the loop run by a thread (data_sync.py:171-188): the
\* connection is lost or the tick fails (log, sleep), or the tick polls the
\* pairs; the venue has a new bar for at most one of them
Tick(th) ==
    /\ threadPc[th] = "tick"
    /\ \E outcome \in {"disconnected", "error", "synced"} :
          IF outcome = "synced"
          THEN \E p \in Pairs, t \in Times : PollPair(p, t)
          ELSE UNCHANGED <<last_sync_times, store, lastNotified>>
    /\ threadPc' = [threadPc EXCEPT ![th] = "sleep"]
    /\ UNCHANGED <<running, sync_thread, stopCall>>

\* time.sleep(interval_seconds) or time.sleep(retry_delay_seconds) ends
Sleep(th) ==
    /\ threadPc[th] = "sleep"
    /\ threadPc' = [threadPc EXCEPT ![th] = "test"]
    /\ UNCHANGED <<running, sync_thread, stopCall, last_sync_times, store, lastNotified>>

OutsideLife ==
    UNCHANGED <<cfgVars, histVars, evalVars, tradeVars, concVars, rowVars, mgrVars, apiVars,
                loopVars, riskVars, sizeVars, probeVars, syncPc, pairIdx, latest,
                bar_listeners, listenerIdx, poll>>

LifeNext ==
    \/ Start /\ OutsideLife
    \/ Stop /\ OutsideLife
    \/ JoinReturns /\ OutsideLife
    \/ \E th \in SyncThreads : LoopTest(th) /\ OutsideLife
    \/ \E th \in SyncThreads : Tick(th) /\ OutsideLife
    \/ \E th \in SyncThreads : Sleep(th) /\ OutsideLife

\* the service started by main.py, then started and stopped by its caller
LifeSpecInit ==
    /\ CfgRest /\ SyncInit /\ EvalRest /\ TradeRest /\ ConcInit /\ RowRest /\ MgrInit
    /\ LoopInit /\ RiskRest /\ SizeRest /\ ProbeInit /\ LifeInit
LifeSpec ==
    LifeSpecInit
    /\ [][LifeNext]_vars

\* the signal an evaluator of EURUSD builds for a direction
SignalOf(direction) ==
    [symbol |-> "EURUSD", direction |-> direction,
     stop_loss |-> IF direction = "BUY" THEN 1
                   ELSE IF direction = "SELL" THEN MaxPrice ELSE 0]

\* strategy_manager.py:192-196: signal = strategy.evaluate(bar); if signal:
\* self._process_signal(signal)
EvaluateThenProcess ==
    /\ Evaluate
    /\ IF evalResult' = "NONE"
       THEN UNCHANGED tradeVars
       ELSE ProcessSignalWith(SignalOf(evalResult'))

OutsideEmit == UNCHANGED <<cfgVars, syncVars, histVars, concVars, rowVars, mgrVars, apiVars, loopVars, riskVars,
        sizeVars, probeVars, lifeVars>>

EmitNext ==
    \/ EvaluateThenProcess /\ OutsideEmit
    \/ VenueClose /\ OutsideTrade

\* one evaluator configured without EMAs, whose signals go to the trade manager
EmitSpecInit ==
    /\ CfgRest /\ SyncInit /\ EvalInit /\ TradeInit /\ ConcInit /\ RowRest /\ MgrInit
    /\ LoopInit /\ RiskRest /\ SizeRest /\ ProbeInit /\ LifeRest
    /\ stratCfg.numEmas = 0
    /\ instruments = Symbols
EmitSpec ==
    EmitSpecInit
    /\ [][EmitNext]_vars

\* signals, trailing passes and venue events, one handler at a time
TradeSpecInit == CfgRest /\ SyncInit /\ EvalRest /\ TradeInit /\ ConcInit /\ RowRest /\ MgrInit /\ LoopInit /\ RiskRest /\ SizeRest /\ ProbeInit /\ LifeRest
TradeSpec ==
    TradeSpecInit
    /\ [][TradeNext]_vars

\* the trailing-stop thread of main.py:15-27 runs a pass every 5 seconds for
\* as long as the process lives, and the venue answers each of its calls;
\* signals and venue events come when they come
TrailNext ==
    \/ ProcessSignal /\ OutsideTrade
    \/ UpdateTrailingStopsReachable /\ OutsideTrade
    \/ VenueClose /\ OutsideTrade

TrailLiveSpec ==
    /\ TradeSpecInit
    /\ [][TrailNext]_vars
    /\ WF_vars(UpdateTrailingStopsReachable /\ OutsideTrade)

(***************************************************************************)
(* main.py: the two loops and the shutdown                                 *)
(***************************************************************************)
\* main.py:84  stop_event.set()
SetStopEvent ==
    /\ ~stop_event
    /\ stop_event' = TRUE
    /\ UNCHANGED <<trailPc, tradeVars>>

\* a loop test that does not look at the event
TrailLoopCheckIgnoringStop ==
    /\ trailPc = "check"
    /\ trailPc' = "pass"
    /\ UNCHANGED <<stop_event, tradeVars>>

\* main.py:20  "while not stop_event.is_set()"
TrailLoopCheck ==
    /\ trailPc = "check"
    /\ trailPc' = IF stop_event THEN "exited" ELSE "pass"
    /\ UNCHANGED <<stop_event, tradeVars>>

\* a venue call of the pass has raised
PassRaised ==
    /\ OpenTickets(open_positions) # {}
    /\ trailing_stop_enabled
    /\ ~lastRun'.synced

\* a thread that dies when a venue call of its pass raises
TrailLoopPassDying ==
    /\ trailPc = "pass"
    /\ UpdateTrailingStops
    /\ trailPc' = IF PassRaised THEN "exited" ELSE "sleep"
    /\ UNCHANGED stop_event

\* main.py:21-24: one pass; update_trailing_stops catches what its venue
\* calls raise, and the loop's own except clause leads to the same sleep
TrailLoopPass ==
    /\ trailPc = "pass"
    /\ UpdateTrailingStops
    /\ trailPc' = "sleep"
    /\ UNCHANGED stop_event

\* main.py:27  time.sleep(5)
TrailLoopSleep ==
    /\ trailPc = "sleep"
    /\ trailPc' = "check"
    /\ UNCHANGED <<stop_event, tradeVars>>

OutsideTrailLoop == UNCHANGED <<cfgVars, syncVars, histVars, evalVars, concVars, rowVars, mgrVars, apiVars, riskVars,
        sizeVars, probeVars, lifeVars>>

\* the steps of the sync thread (_sync_loop and the tick it runs)
SyncThreadStep ==
    \/ SyncLoopTop /\ OutsideSync
    \/ RetryDelay /\ OutsideSync
    \/ FetchLatest /\ OutsideSync
    \/ UpdatePreviousBar /\ OutsideSync
    \/ ConvertBar /\ OutsideSync
    \/ StoreNewBar /\ OutsideSync
    \/ NotifyListener /\ OutsideSync
    \/ AdvanceCursor /\ OutsideSync

\* the steps of the trailing-stop thread
TrailThreadStep ==
    \/ TrailLoopCheck /\ OutsideTrailLoop
    \/ TrailLoopPass /\ OutsideTrailLoop
    \/ TrailLoopSleep /\ OutsideTrailLoop

LoopNext ==
    \/ StopService /\ OutsideSync
    \/ SetStopEvent /\ OutsideTrailLoop
    \/ SyncLoopTop /\ OutsideSync
    \/ RetryDelay /\ OutsideSync
    \/ FetchLatest /\ OutsideSync
    \/ UpdatePreviousBar /\ OutsideSync
    \/ ConvertBar /\ OutsideSync
    \/ StoreNewBar /\ OutsideSync
    \/ NotifyListener /\ OutsideSync
    \/ AdvanceCursor /\ OutsideSync
    \/ TrailLoopCheck /\ OutsideTrailLoop
    \/ TrailLoopPass /\ OutsideTrailLoop
    \/ TrailLoopSleep /\ OutsideTrailLoop

\* TradeManager.initialize (trade_manager.py:35-64) has loaded the position
\* the account already holds at the venue
HeldAtStart ==
    [t \in Tickets |-> IF t = 1
                       THEN [symbol |-> "EURUSD", type |-> "BUY", sl |-> 1]
                       ELSE Closed]

LoopTradeInit ==
    /\ instruments = {"EURUSD"}
    /\ quotes = {2}
    /\ trailing_stop_enabled = TRUE
    /\ venue = HeldAtStart
    /\ open_positions = Snapshot(HeldAtStart, [t \in {1} |-> 2])
    /\ nextTicket = 2
    /\ lastSignal = NoSignal
    /\ lastCount = 0
    /\ lastOrders = 0
    /\ lastMods = NoMods
    /\ lastRun = NoRun
    /\ heldSameDirection = FALSE

\* both threads are scheduled again and again and their sleeps return
LoopSpecInit ==
    /\ numPairs = 1 /\ payloads = 1
    /\ SyncInit /\ EvalRest /\ LoopTradeInit /\ ConcInit /\ RowRest /\ MgrInit /\ LoopInit /\ RiskRest /\ SizeRest /\ ProbeInit /\ LifeRest
LoopSpec ==
    /\ LoopSpecInit
    /\ [][LoopNext]_vars
    /\ WF_vars(SyncThreadStep)
    /\ WF_vars(TrailThreadStep)

(***************************************************************************)
(* the risk parameters: start-up and the handlers that read them           *)
(***************************************************************************)
\* AppConfig (config/app_config.py:174-180) has no field for the risk
\* parameters: whether the object carries them is fixed before start-up
RiskInit ==
    /\ risk_params \in BOOLEAN
    /\ initialized = FALSE
    /\ riskFailure = FALSE

\* TradeManager.initialize (trade_manager.py:35-64): dependencies, connection,
\* _sync_positions; no risk parameter is read
Initialize ==
    /\ ~initialized
    /\ \E connected \in BOOLEAN :
          IF connected
          THEN /\ Refreshed(venue, open_positions, open_positions')
               /\ initialized' = TRUE
          ELSE \* "MT5 connection not established": logged and raised again
               UNCHANGED <<open_positions, initialized>>
    /\ UNCHANGED <<instruments, quotes, venue, nextTicket, trailing_stop_enabled,
                   lastSignal, lastCount, lastOrders, lastMods, lastRun,
                   risk_params, riskFailure>>

\* StrategyManager._process_signal with the risk parameters read at
\* trade_manager.py:534 (check_max_positions) and 169 / 275 (entry handlers)
RiskProcessSignal ==
    /\ initialized
    /\ \E sig \in Signals :
          IF ~risk_params /\ sig.direction \in {"BUY", "SELL"}
          THEN \* AttributeError in check_max_positions, caught at
               \* strategy_manager.py:312: the signal is dropped
               /\ lastSignal' = sig
               /\ lastCount' = get_position_count(open_positions)
               /\ Refused(FALSE)
               /\ lastMods' = NoMods
               /\ riskFailure' = TRUE
               /\ UNCHANGED <<instruments, quotes, trailing_stop_enabled>>
          ELSE /\ ProcessSignalWith(sig)
               /\ riskFailure' = FALSE
    /\ UNCHANGED <<risk_params, initialized>>

\* update_trailing_stops with the risk parameters read at trade_manager.py:432
RiskTrailingPass ==
    /\ initialized
    /\ IF ~risk_params /\ OpenTickets(open_positions) # {}
       THEN \* AttributeError, caught at 505: the pass ends without a refresh
            /\ lastMods' = NoMods
            /\ lastRun' = NoRun
            /\ lastSignal' = NoSignal
            /\ lastCount' = 0
            /\ lastOrders' = 0
            /\ riskFailure' = TRUE
            /\ UNCHANGED <<instruments, quotes, venue, open_positions, nextTicket,
                           trailing_stop_enabled>>
       ELSE /\ UpdateTrailingStops
            /\ riskFailure' = FALSE
    /\ UNCHANGED <<risk_params, initialized>>

OutsideRisk == UNCHANGED <<cfgVars, syncVars, histVars, evalVars, concVars, rowVars, mgrVars, apiVars, loopVars,
        sizeVars, probeVars, lifeVars>>

RiskNext ==
    \/ Initialize /\ OutsideRisk
    \/ RiskProcessSignal /\ OutsideRisk
    \/ RiskTrailingPass /\ OutsideRisk
    \/ VenueClose /\ OutsideTrade

RiskSpecInit ==
    /\ CfgRest /\ SyncInit /\ EvalRest /\ TradeRest /\ ConcInit /\ RowRest /\ MgrInit
    /\ LoopInit /\ RiskInit /\ SizeRest /\ ProbeInit /\ LifeRest
RiskSpec ==
    RiskSpecInit
    /\ [][RiskNext]_vars

\* the evaluator, each call seen with its inputs
GateSpecInit ==
    /\ CfgRest /\ SyncInit /\ GivenInit /\ TradeRest /\ ConcInit /\ RowRest /\ MgrInit
    /\ LoopInit /\ RiskRest /\ SizeRest /\ LifeRest
GateSpec ==
    GateSpecInit
    /\ [][GateNext]_vars

\* entry orders being sized, one after the other
SizeSpecInit ==
    /\ CfgRest /\ SyncInit /\ EvalRest /\ TradeRest /\ ConcInit /\ RowRest /\ MgrInit
    /\ LoopInit /\ RiskRest /\ SizeInit /\ ProbeInit /\ LifeRest
SizeSpec ==
    SizeSpecInit
    /\ [][SizeNext]_vars

\* the trade manager called directly, with trailing passes and venue events
ApiSpecInit == TradeSpecInit /\ instruments = Symbols
ApiSpec ==
    ApiSpecInit
    /\ [][ApiNext]_vars

\* the strategy manager driving the trade manager and the signal handlers
MgrSpecInit ==
    /\ CfgRest /\ SyncInit /\ EvalRest /\ TradeRest /\ ConcInit /\ RowRest /\ MgrInit /\ LoopInit /\ RiskRest /\ SizeRest /\ ProbeInit /\ LifeRest
    /\ quotes = {2}
MgrSpec ==
    MgrSpecInit
    /\ [][MgrNext]_vars

\* the PriceBar table under any sequence of its three writers
StoreSpecInit == CfgRest /\ SyncInit /\ EvalRest /\ TradeRest /\ ConcInit /\ RowInit /\ MgrInit /\ LoopInit /\ RiskRest /\ SizeRest /\ ProbeInit /\ LifeRest
StoreSpec ==
    StoreSpecInit
    /\ [][RowNext]_vars

\* the signal path and the trailing-stop loop as concurrent threads, on one
\* instrument quoted at the two highest prices, with trailing stops enabled
ConcSpecInit ==
    /\ CfgRest /\ SyncInit /\ EvalRest /\ ConcInit /\ RowRest /\ MgrInit /\ LoopInit /\ RiskRest /\ SizeRest /\ ProbeInit /\ LifeRest
    /\ instruments = {"EURUSD"}
    /\ quotes = {MaxPrice, MaxPrice + 1}
    /\ trailing_stop_enabled = TRUE
    /\ venue = [t \in Tickets |-> Closed]
    /\ open_positions = EmptyBook
    /\ nextTicket = 1
    /\ lastSignal = NoSignal
    /\ lastCount = 0
    /\ lastOrders = 0
    /\ lastMods = NoMods
    /\ lastRun = NoRun
    /\ heldSameDirection = FALSE
ConcSpec ==
    ConcSpecInit
    /\ [][ConcNext]_vars

(***************************************************************************)
(* Properties                                                              *)
(***************************************************************************)
\* C1: the sync cursor of a (symbol, timeframe) pair never decreases, whatever
\* the venue returns and whichever step of a poll fails.
CursorNeverDecreases ==
    [][\A p \in Pairs : last_sync_times'[p] >= last_sync_times[p]]_vars

\* C1 case: after the cursor advanced, a poll fetched an older bar
OlderBarFetched ==
    /\ latest # NoBar
    /\ poll.pair \in Pairs
    /\ last_sync_times[poll.pair] > StartTime
    /\ latest.time < last_sync_times[poll.pair]

\* C2: an evaluator never emits two BUY entries (or two SELL entries) in a
\* row; between them there is an entry of the other direction or a CLOSE.
NoRepeatedEntry ==
    \A i \in 1..(Len(emitted) - 1) :
       emitted[i] \in {"BUY", "SELL"} => emitted[i + 1] # emitted[i]

\* a stop moved from old to new did not move away from the price
Favourable(type, old, new) == IF type = "BUY" THEN new >= old ELSE new <= old

\* C3: a trailing modification never asks for a looser stop than the one in
\* the book, and over any sequence of trailing passes and refreshes the
\* venue's stop of an open position never loosens.
TrailingStopNeverLoosens ==
    [][/\ \A t \in Tickets :
             lastMods'[t] # NoMod =>
                Favourable(lastMods'[t].type, lastMods'[t].old, lastMods'[t].new)
       /\ \A t \in Tickets :
             venue[t] # Closed /\ venue'[t] # Closed =>
                Favourable(venue[t].type, venue[t].sl, venue'[t].sl)]_vars

\* C4: when the book holds max_total_positions positions or more,
\* StrategyManager._process_signal sends no order for a BUY or SELL signal.
CapBlocksEntry ==
    (lastSignal.direction \in {"BUY", "SELL"} /\ lastCount >= max_total_positions)
       => lastOrders = 0

\* C4 case: an entry signal the duplicate-direction check would have let
\* through arrived while the cap was reached
EntryBlockedByCap ==
    /\ lastSignal.direction \in {"BUY", "SELL"}
    /\ lastCount >= max_total_positions
    /\ ~has_same_direction(open_positions, lastSignal.symbol, lastSignal.direction)

\* C5: the number of positions open at the venue never exceeds
\* max_total_positions, also when a refresh of the book fails or returns None.
VenueWithinCap == Cardinality(OpenAtVenue) <= max_total_positions

\* C6: while one thread refreshes the book, a reader in the other thread
\* finds the complete previous book or the complete new one.
ReadersSeeCompleteBook ==
    \A th \in Threads :
       (pc[th] = "sync_fill" /\ pc[Other(th)] \in {"idle", "process"})
          => open_positions \in {bookBefore[th], snap[th]}

\* C7: stop writes of the two threads are serialized: a refresh that replaces
\* a book entry holding the position's current stop stores that same stop, not
\* an older one read before the other thread's update.
NoLostStopUpdate ==
    \A th \in Threads, t \in Tickets :
       (/\ pc[th] = "sync_fill"
        /\ snap[th][t] # NoPos
        /\ bookBefore[th][t] # NoPos
        /\ venue[t] # Closed
        /\ bookBefore[th][t].sl = venue[t].sl)
          => snap[th][t].sl = venue[t].sl

\* a poll has ended
PollEnded == syncPc \in {"pair", "loop", "retry", "stopped"}

\* C8: a poll that found a new bar either stored the row, advanced the cursor
\* and notified the listeners, or did none of the three.
PollAllOrNothing ==
    (PollEnded /\ poll.isNew) =>
       /\ poll.stored <=> poll.advanced
       /\ poll.advanced <=> poll.notified > 0

\* C9 as written: the cursor already equals the bar's open_time when a
\* listener is invoked.
CursorAdvancedWhenNotified ==
    syncPc = "notify" => last_sync_times[CurPair] = latest.time

\* C9: a poll finalizes the previous bar, then upserts the new bar, then
\* notifies the listeners, then advances the cursor; when a listener is
\* invoked the row is stored and the cursor is still below the bar's open_time.
CursorAdvancedAfterNotify ==
    /\ poll.stored => poll.finalized
    /\ poll.notified > 0 => poll.stored
    /\ poll.advanced => (poll.stored /\ PollEnded)
    /\ syncPc = "notify" =>
          /\ poll.stored
          /\ Len(store[CurPair][latest.time]) >= 1
          /\ ~poll.advanced
          /\ last_sync_times[CurPair] < latest.time

\* C9 case: a listener has been invoked and the next one is about to be
NotifyingSecondListener ==
    /\ syncPc = "notify"
    /\ poll.notified >= 1

\* C10: the open_times a listener is notified of, for one pair, are strictly
\* increasing, across loop iterations and failures.
NotifiedTimesIncrease ==
    syncPc = "notify" => latest.time > lastNotified[listenerIdx][CurPair]

\* C10 case: a listener that already received a later bar than the first one
\* is about to be notified again for the same pair
NotifiedAgain ==
    /\ syncPc = "notify"
    /\ lastNotified[listenerIdx][CurPair] >= StartTime + 1

\* C11: a poll for which the venue returns no bar, or a bar not strictly later
\* than the pair's cursor, ends at once: no stored bar and no cursor changes
\* and no listener is invoked.
IdlePollChangesNothing ==
    [][(/\ syncPc = "pair"
        /\ \/ latest' = NoBar
           \/ latest'.time <= last_sync_times[CurPair])
          => /\ syncPc' \in {"pair", "loop"}
             /\ store' = store
             /\ last_sync_times' = last_sync_times
             /\ lastNotified' = lastNotified]_vars

\* C11 case: the bar the cursor points to, still forming, was polled again
FormingBarPolledAgain ==
    /\ PollEnded
    /\ poll.pair \in Pairs
    /\ ~poll.isNew
    /\ latest # NoBar
    /\ last_sync_times[poll.pair] > StartTime
    /\ latest.time = last_sync_times[poll.pair]

\* C12: after any sequence of history stores, new-bar stores and
\* finalizations the table holds at most one row per bar of the series:
\* storing a bar that is already stored overwrites its row.
OneRowPerBar ==
    \A t \in Times :
       Cardinality({k \in StoreKeys : barRows[k] # NoRow /\ barRows[k].bar = t}) <= 1

\* C13: the finalization pass rewrites a closed bar at most once over any
\* sequence of polls, also when a poll failed to store the new bar and left
\* the cursor behind.
ClosedBarFinalizedOnce ==
    \A p \in Pairs, t \in Times : finalizeWrites[p][t] <= 1

\* C14: a fetch, conversion, finalization or store failure for one pair does
\* not abort the tick: the poll of the pair ends with the next configured
\* pair being polled (or, after the last pair, with the tick complete), and
\* the cursor of the pair whose poll had the failure is unchanged.
PairFailureKeepsTickAndCursor ==
    [][/\ (/\ syncPc \in {"pair", "convert", "store"} /\ syncPc' \in {"pair", "loop"}
           /\ bar_listeners' = bar_listeners /\ running' = running)
          => /\ last_sync_times' = last_sync_times
             /\ IF pairIdx < numPairs
                THEN syncPc' = "pair" /\ pairIdx' = pairIdx + 1
                ELSE syncPc' = "loop"
       /\ finalizeFailed => last_sync_times' = last_sync_times]_vars

\* C15: a sync cycle whose liveness check fails polls no pair, changes no
\* stored bar and no cursor and invokes no listener; the loop then waits the
\* retry delay and tests again, it does not end.
FailedCycleSkipsTick ==
    [][/\ (syncPc = "loop" /\ syncPc' = "retry")
          => /\ store' = store
             /\ last_sync_times' = last_sync_times
             /\ lastNotified' = lastNotified
             /\ poll' = poll /\ latest' = latest /\ pairIdx' = pairIdx
       /\ syncPc = "retry"
          => /\ syncPc' \in {"retry", "loop"}
             /\ store' = store
             /\ last_sync_times' = last_sync_times
             /\ lastNotified' = lastNotified
             /\ poll' = poll]_vars

\* C15 case: the liveness check failed in a cycle after bars were synchronized
RetryAfterSyncedBar ==
    /\ syncPc = "retry" /\ running
    /\ poll.advanced
    /\ \E p \in Pairs : last_sync_times[p] > StartTime /\ Len(store[p][last_sync_times[p]]) > 0

\* C16: an evaluate call in which a step raised returns no signal and leaves
\* last_signal_type as it was before the call.
RaisingEvaluateChangesNothing ==
    [][evalRaised' => (evalResult' = "NONE" /\ last_signal_type' = last_signal_type)]_vars

\* C17: when a bar notification or a manual re-evaluation has returned, every
\* evaluator matching it has been evaluated exactly once and no other has been
\* evaluated; a failure while one evaluator was handled has not kept the call
\* from the evaluators after it.
EachMatchingEvaluatorOnce ==
    mgrCall.returned =>
       /\ mgrCall.kind = "bar" =>
             \A e \in Evaluators : invoked[e] = IF Matches(e) THEN 1 ELSE 0
       /\ mgrCall.kind = "manual" =>
             \A e \in Evaluators : visit[e] \notin {"skipped", "failed"} => invoked[e] = 1

\* C18: every signal the manager processes is delivered exactly once to every
\* registered signal handler, also an entry signal the cap refuses and one
\* whose order fails.
EverySignalDeliveredOnce ==
    [][(gotSignal' /\ invoked' # invoked)
          => \A h \in 1..signal_handlers : delivered'[h] = 1]_vars

\* C19: a BUY (SELL) signal sends no order when the book holds a BUY (SELL)
\* position for the signal's instrument.
SameDirectionBlocksEntry ==
    (lastSignal.direction \in {"BUY", "SELL"} /\ heldSameDirection) => lastOrders = 0

\* C19 case: an entry was sent and filled while the book held a position of
\* the opposite direction on the signal's instrument
OppositeDirectionDoesNotBlock ==
    /\ lastSignal.direction \in {"BUY", "SELL"} /\ lastOrders = 1 /\ lastCount = 1
    /\ \E t \in Tickets, u \in Tickets :
          /\ t < u /\ nextTicket = u + 1
          /\ open_positions[t].symbol = lastSignal.symbol
          /\ open_positions[t].type \in {"BUY", "SELL"} \ {lastSignal.direction}
          /\ open_positions[u].symbol = lastSignal.symbol
          /\ open_positions[u].type = lastSignal.direction

\* C20: TradeManager.process_signal sends an order for a BUY or SELL only
\* while the book holds fewer than max_total_positions positions, whoever calls it.
ProcessSignalRefusesAtCap ==
    (lastSignal.direction \in {"BUY", "SELL"} /\ lastOrders > 0)
       => lastCount < max_total_positions

\* ---------------------------------------------------------------------------
\* C21: whenever the signal path has sent an order to the venue (open long,
\* open short or close), accepted or rejected, the handler has refreshed the
\* position book from the venue (called _sync_positions) before returning.
OrderAttemptRefreshesBook ==
    (lastSignal # NoSignal /\ lastOrders > 0) => lastRun.synced

\* an entry order the venue rejected: process_signal has returned without
\* calling _sync_positions
RejectedEntryNotRefreshed ==
    /\ lastSignal.direction \in {"BUY", "SELL"}
    /\ lastOrders = 1
    /\ ~lastRun.synced

\* C22: every invocation of update_trailing_stops ends by refreshing the
\* position book from the venue (a call of _sync_positions), also when the
\* book is empty, trailing stops are disabled, a modification is rejected or
\* a venue call raises.
TrailingPassRefreshesBook ==
    [][UpdateTrailingStops => lastRun'.synced]_vars

\* C23: while the venue is reachable and the trailing-stop loop runs, a
\* position book that differs from the venue's position list (a position the
\* venue has closed, a book emptied by a failed positions query) eventually
\* matches it again.
BookEventuallyMatchesVenue ==
    (OpenTickets(open_positions) # OpenAtVenue)
        ~> (OpenTickets(open_positions) = OpenAtVenue)

\* the last signal was an entry whose one order the venue did not accept
EntryOrderFailed ==
    /\ lastSignal.direction \in {"BUY", "SELL"}
    /\ lastOrders > 0
    /\ ~lastRun.result

\* C24: a BUY or SELL signal sends at most one order request; when the venue
\* does not accept it (rejection or failed venue call) process_signal returns
\* False and sends nothing more; and after such a failure the next signal is
\* processed as usual: its order is sent to the venue.
OneOrderPerEntrySignal ==
    /\ [][(CallProcessSignal /\ lastSignal'.direction \in {"BUY", "SELL"})
             => /\ lastOrders' <= 1
                /\ venue' = venue => ~lastRun'.result]_vars
    /\ [](EntryOrderFailed
             => ENABLED (CallProcessSignal /\ OutsideApi /\ lastOrders' > 0))

\* an entry order that failed while an earlier entry is open at the venue
FailedEntryAfterAcceptedOne ==
    /\ EntryOrderFailed
    /\ OpenAtVenue # {}

\* C25: once a stop is requested each loop ends: the sync loop after at most
\* the tick and sleep it is in, the trailing loop after at most the pass and
\* sleep it is in; a loop that tests its signal after the request begins no
\* new tick or pass, and a loop that has ended stays ended.
LoopsEndAfterStopRequest ==
    /\ (~running) ~> (syncPc = "stopped")
    /\ stop_event ~> (trailPc = "exited")
    /\ [][(~running /\ syncPc = "loop") => syncPc' \in {"loop", "stopped"}]_vars
    /\ [][(stop_event /\ trailPc = "check") => trailPc' \in {"check", "exited"}]_vars
    /\ [][syncPc = "stopped" => syncPc' = "stopped"]_vars
    /\ [][trailPc = "exited" => trailPc' = "exited"]_vars

\* both loops have ended, the sync loop after storing a bar
BothLoopsEnded ==
    /\ syncPc = "stopped"
    /\ trailPc = "exited"
    /\ \E p \in Pairs : last_sync_times[p] > StartTime

\* C26: a failure inside a sync tick or a trailing pass stays inside its
\* loop: a loop ends only because its stop was requested, after a failed
\* tick or pass it comes back to its loop test once the delay is over, and a
\* step of one thread changes nothing of the other loop.
FailuresStayInsideLoop ==
    /\ [][(syncPc # "stopped" /\ syncPc' = "stopped") => ~running]_vars
    /\ [][(trailPc # "exited" /\ trailPc' = "exited") => stop_event]_vars
    /\ (syncPc # "stopped") ~> (syncPc \in {"loop", "stopped"})
    /\ (trailPc # "exited") ~> (trailPc \in {"check", "exited"})
    /\ [][trailPc' # trailPc => UNCHANGED <<running, syncPc>>]_vars
    /\ [][syncPc' # syncPc => UNCHANGED <<stop_event, trailPc>>]_vars

\* a venue call of the pass just run has raised and the thread is in its
\* sleep, while the sync loop waits after a failed connection check
BothLoopsAfterFailure ==
    /\ trailPc = "sleep"
    /\ OpenTickets(open_positions) # {}
    /\ ~lastRun.synced
    /\ syncPc = "retry"
    /\ ~stop_event
    /\ running

\* C27: initialization succeeds only when the risk parameters are present,
\* and once it has succeeded no signal, position-cap check or trailing pass
\* fails because a risk parameter is missing.
RiskParametersCheckedAtStartup ==
    initialized => (risk_params /\ ~riskFailure)

\* an initialized trade manager has just dropped an entry signal because the
\* risk parameters are missing
EntryFailedOnMissingRiskParameter ==
    /\ initialized
    /\ riskFailure
    /\ lastSignal.direction \in {"BUY", "SELL"}

\* the volume the sizing rule of the specification gives before rounding:
\* (account_equity * risk_percent / 100) / (|entry_price - stop_loss| in
\* price steps) / value_per_step
SpecifiedVolume(in) ==
    Quot(in.equity * in.risk_percent,
         100 * Abs(in.entry_price - in.stop_loss) * in.tick_value)

\* C28: the volume of an entry order before lot-step rounding is
\* (account_equity * risk_percent / 100) / (|entry_price - stop_loss| in
\* price steps) / value_per_step, with the live account equity and the
\* distance measured from the signal's entry_price.
VolumeFromEquityAndEntryPrice ==
    sized.sent =>
        /\ sizing.entry_price # sizing.stop_loss
        /\ SameQuot(sized.raw, SpecifiedVolume(sizing))

\* equity 10000, risk 1%, stop 50 steps from the entry price, value per step
\* 1, where the specified volume is 2 and the code has computed another one
ExampleSizedDifferently ==
    /\ sized.sent
    /\ sizing.equity = 10000 /\ sizing.risk_percent = 1 /\ sizing.tick_value = 1
    /\ Abs(sizing.entry_price - sizing.stop_loss) = 50
    /\ SameQuot(SpecifiedVolume(sizing), Quot(2, 1))
    /\ ~SameQuot(sized.raw, Quot(2, 1))

\* C29: the volume of every entry order sent is the computed volume rounded
\* to the nearest multiple of volume_step and then clamped, and lies within
\* volume_min..volume_max.
OrderVolumeWithinLimits ==
    sized.sent =>
        /\ sized.rounded % sizing.volume_step = 0
        /\ 2 * Abs(sized.rounded * sized.raw.den - sized.raw.num)
              <= sizing.volume_step * sized.raw.den
        /\ sized.volume = clamp(sized.rounded, sizing.volume_min, sizing.volume_max)
        /\ sizing.volume_min <= sized.volume
        /\ sized.volume <= sizing.volume_max

\* an order whose rounded volume lay outside volume_min..volume_max
VolumeClamped ==
    /\ sized.sent
    /\ sized.volume # sized.rounded
    /\ sized.volume \in {sizing.volume_min, sizing.volume_max}

\* C30: a call of evaluate changes last_signal_type only when it returns a
\* signal: BUY is returned only from FLAT or SHORT and sets LONG, SELL only
\* from FLAT or LONG and sets SHORT, CLOSE resets to FLAT, and a call that
\* returns no signal leaves the state as it was.
StateChangesOnlyWithSignal ==
    [][/\ evalResult' = "NONE" => last_signal_type' = last_signal_type
       /\ evalResult' = "BUY" =>
             (last_signal_type \in {"NONE", "SELL"} /\ last_signal_type' = "BUY")
       /\ evalResult' = "SELL" =>
             (last_signal_type \in {"NONE", "BUY"} /\ last_signal_type' = "SELL")
       /\ evalResult' = "CLOSE" =>
             (last_signal_type # "NONE" /\ last_signal_type' = "NONE")]_vars

\* the call under observation has been made once and went past the history
\* and spread checks and the indicator computation
SawWindow == evalCall.calls = 1 /\ evalCall.stage \notin EarlyStages

\* C31: CLOSE is returned only from LONG or SHORT.  In LONG, a call that gets
\* past the history and spread checks and sees the MACD line cross below the
\* signal line (in rapid-exit mode also: the short EMA below the medium EMA)
\* returns CLOSE and leaves the evaluator FLAT, unless it returns a SELL
\* entry; symmetric in SHORT.
ExitLeavesPosition ==
    /\ evalCall.first = "CLOSE" => evalCall.before \in {"BUY", "SELL"}
    /\ (/\ SawWindow
        /\ evalCall.before = "BUY"
        /\ \/ macd_crosses_below(evalCall.ind)
           \/ stratCfg.rapid_exit /\ stratCfg.numEmas >= 2 /\ evalCall.ind.emaOrder < 0)
          => \/ evalCall.first = "CLOSE" /\ evalCall.between = "NONE"
             \/ evalCall.first = "SELL"
    /\ (/\ SawWindow
        /\ evalCall.before = "SELL"
        /\ \/ macd_crosses_above(evalCall.ind)
           \/ stratCfg.rapid_exit /\ stratCfg.numEmas >= 2 /\ evalCall.ind.emaOrder > 0)
          => \/ evalCall.first = "CLOSE" /\ evalCall.between = "NONE"
             \/ evalCall.first = "BUY"

\* crossovers with strict inequalities at both samples
StrictlyCrossesAbove(ind) == ind.macdPrev < 0 /\ ind.macdCur > 0
StrictlyCrossesBelow(ind) == ind.macdPrev > 0 /\ ind.macdCur < 0

\* C32: a crossover is detected only when the MACD line is strictly on one
\* side of the signal line at the previous sample and strictly on the other
\* at the current one: no entry and no crossover-driven exit is returned for
\* a window in which the lines are equal at either sample.
CrossoversAreStrict ==
    evalCall.calls = 1 =>
        /\ evalCall.first = "BUY" => StrictlyCrossesAbove(evalCall.ind)
        /\ evalCall.first = "SELL" => StrictlyCrossesBelow(evalCall.ind)
        /\ (evalCall.first = "CLOSE" /\ ~stratCfg.rapid_exit) =>
              IF evalCall.before = "BUY"
              THEN StrictlyCrossesBelow(evalCall.ind)
              ELSE StrictlyCrossesAbove(evalCall.ind)

\* a BUY returned for a window whose lines were equal at the previous sample
EntryOnTouchingLines ==
    /\ evalCall.calls = 1
    /\ evalCall.stage = "ok"
    /\ evalCall.first = "BUY"
    /\ evalCall.ind.macdPrev = 0

EveryGateHolds(d, extreme) ==
    LET ind == evalCall.ind IN
    /\ ind.macdPrev * d <= 0
    /\ ind.macdCur * d > 0
    /\ ind.hist * d > 0
    /\ ind.rsi # extreme
    /\ stratCfg.require_volume_confirmation => ind.volume
    /\ stratCfg.numEmas >= 2 => (ind.emaOrder * d > 0 /\ ind.priceShort * d > 0)
    /\ (stratCfg.numEmas >= 3 /\ stratCfg.require_above_long_ema) =>
          ind.priceLong * d > 0

\* C34: a call with too little history or too wide a spread returns no
\* signal and leaves last_signal_type unchanged; a call returns BUY (SELL)
\* only on a window where every configured gate holds at once.
EntryOnlyThroughEveryGate ==
    evalCall.calls = 1 =>
        /\ evalCall.stage \in {"short_history", "wide_spread"} =>
              /\ evalCall.first = "NONE"
              /\ last_signal_type = evalCall.before
        /\ evalCall.first = "BUY" =>
              /\ evalCall.stage \notin EarlyStages
              /\ EveryGateHolds(1, "overbought")
        /\ evalCall.first = "SELL" =>
              /\ evalCall.stage \notin EarlyStages
              /\ EveryGateHolds(-1, "oversold")

\* a BUY returned under a configuration with every EMA gate
BuyThroughConfiguredGates ==
    /\ evalCall.calls = 1
    /\ evalCall.first = "BUY"
    /\ stratCfg.numEmas = 3
    /\ stratCfg.require_above_long_ema

\* the positions the book holds for the instrument of the signal being processed
HeldForSignal == {t \in Tickets : open_positions[t].symbol = lastSignal'.symbol}

\* C35: a CLOSE signal that makes process_signal send close orders makes it
\* send one for every position the book holds for the signal's instrument,
\* and the call returns True only if every one of them is closed.
CloseAllReachesEveryPosition ==
    [][(CallProcessSignal /\ lastSignal'.direction = "CLOSE" /\ lastOrders' > 0) =>
          /\ lastOrders' = Cardinality(HeldForSignal)
          /\ lastRun'.result => \A t \in HeldForSignal : venue'[t] = Closed]_vars

\* C36: in a poll that has stored a new bar, the listeners are invoked one
\* after the other in the order of their registration, each with the pair and
\* the bar of the poll, and when _store_new_bar returns every registered
\* listener has been invoked once.
StoredBarReachesEveryListener ==
    [][/\ poll'.notified = poll.notified + 1 =>
             /\ listenerIdx = poll.notified + 1
             /\ lastNotified'[listenerIdx][CurPair] = latest.time
       /\ (poll'.stored /\ syncPc \in {"store", "notify"}
                        /\ syncPc' \notin {"store", "notify"}) =>
             poll'.notified = bar_listeners]_vars

\* C37: an entry signal returned by evaluate is recorded in last_signal_type
\* whatever the trade manager then does with it, and an entry that was
\* dropped is not returned again as the next signal of the evaluator.
DroppedEntryNotRepeated ==
    [][(emitted' # emitted /\ evalResult' \in {"BUY", "SELL"}) =>
          /\ last_signal_type' = evalResult'
          /\ ~(lastSignal.direction = evalResult' /\ ~lastRun.result)]_vars

\* an entry signal has been dropped and the evaluator holds its direction
EntryDroppedButRecorded ==
    /\ evalResult \in {"BUY", "SELL"}
    /\ lastSignal.direction = evalResult
    /\ ~lastRun.result
    /\ last_signal_type = evalResult

\* C38: whatever the distance between the cursor and the venue's latest
\* bar, a step of the synchronizer inserts a row only for the latest bar of
\* the poll and notifies a listener only of that bar, and the finalization
\* pass only rewrites a row that exists, of a bar older than the latest.
OnlyNewestBarHandled ==
    [][/\ store' # store =>
             \A p \in Pairs : \A t \in Times :
                /\ (Len(store[p][t]) = 0 /\ Len(store'[p][t]) > 0) =>
                      /\ syncPc = "store"
                      /\ p = CurPair
                      /\ t = latest.time
                /\ (store'[p][t] # store[p][t] /\ syncPc = "finalize") =>
                      /\ Len(store[p][t]) > 0
                      /\ p = CurPair
                      /\ t < latest.time
       /\ lastNotified' # lastNotified =>
             \A p \in Pairs : \A l \in 1..MaxListeners :
                lastNotified'[l][p] # lastNotified[l][p] =>
                   /\ p = CurPair
                   /\ lastNotified'[l][p] = latest.time]_vars

\* a poll has stored and notified a bar two bars past the cursor, and the
\* bar in between has no row
IntermediateBarSkipped ==
    /\ syncPc = "advance"
    /\ poll.stored
    /\ poll.notified > 0
    /\ latest.time > last_sync_times[CurPair] + 1
    /\ \A t \in Times :
          (last_sync_times[CurPair] < t /\ t < latest.time) => Len(store[CurPair][t]) = 0

\* C39: whatever start() and stop() calls are made, at most one thread is
\* inside a tick of _sync_loop at any time.
AtMostOneLoopInATick ==
    Cardinality({th \in SyncThreads : threadPc[th] = "tick"}) <= 1

\* C40: once stop() has returned and until start() is called again, no bar
\* is stored, no cursor is advanced and no listener is invoked.
NothingSyncedAfterStop ==
    [][stopCall = "returned" =>
          UNCHANGED <<store, last_sync_times, lastNotified>>]_vars

====
